---- MODULE Spec2Model ----
(***************************************************************************)
(* ferret: an on-demand SSH tunnelling broker.                             *)
(*                                                                         *)
(* The module models the runtime of one ferret process (the publisher):    *)
(*   - Host.Open / Host.Dial           (internal/host.go)                  *)
(*   - Tunnel.Open, forward, copy, autoClose  (internal/statistics.go,     *)
(*     second half: the tunnel source)                                     *)
(*   - StatsManager                    (internal/statistics.go, first half)*)
(*   - main / StartStatsTunnel         (unnamed/part_003)                  *)
(*                                                                         *)
(* Goroutines are processes with a program counter; a statement that       *)
(* blocks (a mutex, an unbuffered channel send, a timer) is an action      *)
(* whose guard is the condition under which the statement proceeds.        *)
(* Unsynchronised read-modify-write statements (x++, x += n) are split     *)
(* into their load and their store.                                        *)
(***************************************************************************)
EXTENDS Integers, Sequences, FiniteSets, TLC

(***************************************************************************)
(* Bounds of the model.                                                    *)
(***************************************************************************)
NTunnel == 2        \* tunnels of the configuration
MaxConn == 2        \* inbound connections accepted in a run
MaxChunk == 2       \* successful src.Read calls in a run
MaxRead == 1        \* largest number of bytes one Read returns
TickLen == 30       \* seconds one Tick of the auto-closer clock advances
MaxSub == 2         \* stats subscribers that connect in a run
MaxTime == 7        \* seconds of the stats clock
MaxStat == 1        \* largest counter value the stats feed carries
NInst == 3          \* ferret processes started on the same stats port
NPort == 2          \* ephemeral ports the system hands out to freePort
MaxFrames == 2      \* frames the publisher writes to one subscriber
MaxShortReads == 1  \* reads that return fewer bytes than were there to read
MaxPayload == 520   \* longest payload handed to writeUpdate

(***************************************************************************)
(* Program constants.                                                      *)
(***************************************************************************)
AutoCloseGrace == 30    \* time.NewTimer(30 * time.Second)
Interval == 5           \* interval = time.Second * 5
SettleDelay == 1        \* time.NewTimer(time.Second)
FrameSize == 256        \* x := 256 - (len(update) % 256)
BufSize == 256          \* bs := make([]byte, 256)

Tunnels == 1..NTunnel
Conns == 1..MaxConn
Dirs == {1, 2}          \* 1: local -> ssh (connected1), 2: ssh -> local (connected2)
Other(d) == 3 - d
NoConn == 0
Subs == 1..MaxSub
NoSub == 0
NoTime == 0 - 1
Insts == 1..NInst
Ports == 1..NPort
\* the names a configuration gives its hosts and tunnels, by position
HostNames == <<"A", "B", "C">>
TunnelNames == <<"T1", "T2">>
AcceptErr == 0 - 1

Min(a, b) == IF a < b THEN a ELSE b

VARIABLES
    \* ---- process ----
    ctxDone,        \* the process-wide context has been cancelled
    bcPc,           \* statsBroadcaster: "select" | "exited"
    \* ---- Host ----
    client,         \* h.client != nil
    hostLock,       \* h.lock: NoConn, or the connection whose forward holds it
    sessions,       \* history: successful ssh.Dial calls of Host.Open
    \* ---- Tunnel.Open ----
    tpc,            \* position of Tunnel.Open per tunnel
    listener,       \* localListener: "none" | "open" | "closed"
    boundAddr,      \* address the listener is bound to (0: none)
    ready,          \* values sent on listeningChan, in order
    lcPc,           \* the goroutine closing the listener: "none" | "waiting" | "done"
    acceptRes,      \* result of the last Accept: a connection, or AcceptErr
    tunnelStats,    \* the package-level slice of registered TunnelStats (tunnel ids)
    stats,          \* TunnelStats per tunnel
    wrote,          \* history: bytes really written per tunnel and direction
    \* ---- Tunnel.forward ----
    fpc,            \* position of forward per connection
    connTunnel,     \* tunnel that accepted the connection
    creg,           \* register of the Connections++ load
    local,          \* localConn: "none" | "open" | "closed"
    remote,         \* sshConn:   "none" | "open" | "closed"
    connCancel,     \* the per-connection context is cancelled
    \* ---- Tunnel.copy (one task per connection and direction) ----
    cpc,            \* position of the copy goroutine
    nwReg,          \* nw of the current chunk
    ldReg,          \* register of the counter load
    brkReg,         \* the loop ends after this chunk (ew, short write or er)
    connected,      \* connected1 / connected2
    finishOrder,    \* order of the connections.Add(-1) calls of a connection
    chunks,         \* history: successful reads so far
    \* ---- Tunnel.autoClose (started by direction d of connection c) ----
    acPc,           \* "none" | "waiting" | "triggered" | "terminated"
    acElapsed,      \* seconds since the auto-closer's timer was created
    \* ---- StatsManager ----
    now,            \* the clock, in seconds
    updated,        \* s.updated
    bcTasks,        \* the broadcast goroutines started by statsBroadcaster
    lastBroadcast,  \* statsBroadcaster's lastBroadcast
    statsListener,  \* s.statsListener: "open" | "closed"
    statsLock,      \* s.lock: 0 (free), or the subscriber whose addConnection holds it
    connections,    \* s.connections
    lastUpdate,     \* s.lastUpdate: <<>> or <<frame>>
    subPc,          \* a subscriber's way into the manager: "none" | "accepted" | "adding" | "added"
    subConn,        \* a subscriber's connection: "none" | "open" | "broken" | "closed"
    rx,             \* history: what was written to each subscriber connection
    emits,          \* history: the times at which a broadcast was emitted
    tsPc,           \* transmitStats' accept loop: "accept" | "exited"
    owed,           \* history: latest time at which the broadcast that answers an idle-time signal is due
    \* ---- main, one entry per ferret process ----
    ipc,            \* position of main
    bound,          \* the processes whose stats listener is bound to the stats port
    bindOk,         \* history: result of StartStatsTunnel's net.Listen, <<>> before
    startRet,       \* return value of StartStatsTunnel, <<>> before it returns
    pubAlive,       \* the processes whose transmitStats and statsBroadcaster run
    feed,           \* receiveStats' connection: "none" | "open" | "closed"
    feedPeer,       \* the process the feed connection leads to (0: none)
    tunnelsOpened,  \* the processes that have run startTunnels
    icancel,        \* the processes whose context is cancelled
    \* ---- stats frames: writeUpdate's padding, receiveStats' read loop ----
    payload,        \* update: the serialized record handed to writeUpdate
    frame,          \* <<>> or <<s.lastUpdate>> as writeUpdate built it from payload
    fsent,          \* history: the records the publisher serialized and wrote, in order
    wire,           \* the bytes written to the feed connection and not yet read
    bs,             \* receiveStats' read buffer
    str,            \* receiveStats' accumulated string
    parsed,         \* history: the records receiveStats unmarshalled without error, in order
    shortReads,     \* the reads that returned fewer bytes than were there to read
    badSent,        \* history: for each frame written whose payload does not parse,
                    \* the number of well-formed frames written before it
    rsPc,           \* receiveStats: "reading" | "returned"
    \* ---- configuration: Configuration.Validate, loadConfiguration ----
    cfg,            \* the loaded Configuration: [hosts, tunnels]
    cfgPc,          \* main: "idle" | "loaded" | "running" | "terminated"
    hobj,           \* the Host objects' mutable fields: Address, isHost, isJumpHost
    hostReg,        \* Hosts: the registry, a set of [name, idx]
    tunnelReg,      \* Tunnels: the registry, a set of Tunnel values unique by name
    cfgValid,       \* <<>> or <<the result of Configuration.Validate>>
    vjValid,        \* <<>> or <<the result of validateJumpHosts>>
    hostRes,        \* history: the result of Host.Validate for each configured host
    checkFailed,    \* history: some Validate call or jump-host check reported an error
    synthBuilt,     \* history: the synthetic tunnels validateJumpHosts built
    opened,         \* the names of the tunnels whose Open has run
    dialed,         \* history: [idx, addr] of every ssh.Dial of Host.Open
    \* ---- Address, and the addresses of a Tunnel under Tunnel.Validate ----
    addr,           \* an Address object: [valid, address, port]
    addrRemote,     \* the remote argument of its validation
    addrPc,         \* "idle" | "new" | "validated"
    tunForward,     \* t.Forward: <<>> (nil) or <<Address>>
    tunLocal,       \* t.Local: <<>> (nil) or <<Address>>
    tunLocalGiven,  \* history: the configuration gave the tunnel a local address
    tunPc,          \* "idle" | "new" | "validated"
    \* ---- the process ----
    procExit        \* <<>> while the process runs, <<status>> once it has exited

procVars == <<ctxDone, bcPc>>
mgrVars == <<now, updated, bcTasks, lastBroadcast, statsListener, statsLock, connections,
             lastUpdate, subPc, subConn, rx, emits, tsPc, owed>>
hostVars == <<client, hostLock, sessions>>
tunnelVars == <<tpc, listener, boundAddr, ready, lcPc, acceptRes, tunnelStats>>
statVars == <<stats, wrote>>
fwdVars == <<fpc, connTunnel, creg, local, remote, connCancel>>
copyVars == <<cpc, nwReg, ldReg, brkReg, connected, finishOrder, chunks>>
acVars == <<acPc, acElapsed>>

mainVars == <<ipc, bound, bindOk, startRet, pubAlive, feed, feedPeer, tunnelsOpened, icancel>>

frameVars == <<payload, frame, fsent, wire, bs, str, parsed, shortReads, badSent, rsPc>>
cfgVars == <<cfg, cfgPc, hobj, hostReg, tunnelReg, cfgValid, vjValid, hostRes,
             checkFailed, synthBuilt, opened, dialed>>
addrVars == <<addr, addrRemote, addrPc, tunForward, tunLocal, tunLocalGiven, tunPc>>
exitVars == <<procExit>>
auxVars == <<frameVars, cfgVars, addrVars, exitVars>>

vars == <<auxVars, mainVars, procVars, mgrVars, hostVars, tunnelVars, statVars, fwdVars, copyVars, acVars>>

(***************************************************************************)
(* Configuration: every tunnel has its own validated local address.        *)
(***************************************************************************)
LocalAddr(t) == 9000 + t

ZeroStats == [Connections |-> 0, Received |-> 0, Transmitted |-> 0]
CounterOf(d) == IF d = 1 THEN "Received" ELSE "Transmitted"

(***************************************************************************)
(* StatsManager.statsBroadcaster, case <-s.updateChan: the receive side of *)
(* an unbuffered send on the update channel.  The send proceeds only while *)
(* the broadcaster is in its select loop.                                  *)
(***************************************************************************)
\* json.Marshal(tunnelStats): the snapshot of every registered TunnelStats
Marshal == [i \in 1..Len(tunnelStats) |-> stats[tunnelStats[i]]]

\* variant of NextDeadline that waits the settle delay whatever the age of the
\* previous broadcast
NextDeadline_NoInterval == now + SettleDelay

\* diff := time.Until(lastBroadcast.Add(interval)); wait diff if diff > 0,
\* else one second
NextDeadline ==
    LET diff == (lastBroadcast + Interval) - now
    IN IF diff > 0 THEN now + diff ELSE now + SettleDelay

\* a subscriber is attached, no broadcast is pending and the previous
\* broadcast is at least one interval old
IdleDue == Len(connections) > 0 /\ bcTasks = <<>> /\ now - lastBroadcast >= Interval

ReceiveUpdate ==
    /\ bcPc = "select"
    /\ owed' = IF IdleDue /\ owed = NoTime THEN now + SettleDelay ELSE owed
    /\ IF ~updated
          THEN /\ updated' = TRUE
               /\ IF Len(connections) > 0
                     THEN bcTasks' = Append(bcTasks, [deadline |-> NextDeadline,
                                                      phase |-> "timer"])
                     ELSE UNCHANGED bcTasks
          ELSE UNCHANGED <<updated, bcTasks>>
    /\ UNCHANGED <<now, lastBroadcast, statsListener, statsLock, connections,
                   lastUpdate, subPc, subConn, rx, emits, tsPc>>

(***************************************************************************)
(* StatsManager: the broadcast goroutine, writeUpdate, the subscribers'    *)
(* acceptor, addConnection, closeAllConnections.                           *)
(***************************************************************************)
RemoveAt(q, i) == [j \in 1..(Len(q) - 1) |-> IF j < i THEN q[j] ELSE q[j + 1]]
InSeq(q, x) == \E j \in 1..Len(q) : q[j] = x

\* the connections of q before the first one whose write fails
UntilFailure(q) ==
    LET bad == {j \in 1..Len(q) : subConn[q[j]] # "open"}
    IN IF bad = {} THEN q
       ELSE SubSeq(q, 1, (CHOOSE j \in bad : \A j2 \in bad : j <= j2) - 1)

\* variant of BroadcastFire whose writeUpdate stops at the first failed write
\* and keeps the connections written so far
BroadcastFire_StopAtFailure(i) ==
    /\ i \in 1..Len(bcTasks)
    /\ bcTasks[i].phase = "timer"
    /\ now >= bcTasks[i].deadline
    /\ lastBroadcast' = now
    /\ bcTasks' = [bcTasks EXCEPT ![i].phase = "written"]
    /\ IF statsLock = NoSub
          THEN /\ lastUpdate' = <<Marshal>>
               /\ rx' = [k \in Subs |->
                           IF InSeq(UntilFailure(connections), k)
                              THEN Append(rx[k], [kind |-> "broadcast", frame |-> Marshal])
                              ELSE rx[k]]
               /\ connections' = UntilFailure(connections)
               /\ emits' = Append(emits, now)
               /\ owed' = NoTime
          ELSE UNCHANGED <<lastUpdate, rx, connections, emits, owed>>
    /\ UNCHANGED <<now, updated, statsListener, statsLock, subPc, subConn, tsPc>>
    /\ UNCHANGED <<auxVars, mainVars, procVars, hostVars, tunnelVars, statVars, fwdVars, copyVars, acVars>>

\* the timer of broadcast goroutine i fires: bs := json.Marshal(tunnelStats);
\* lastBroadcast = time.Now(); s.writeUpdate(bs)
\* writeUpdate: TryLock (return when the lock is held); lastUpdate = frame;
\* write the frame to every connection and keep those whose write succeeded
BroadcastFire(i) ==
    /\ i \in 1..Len(bcTasks)
    /\ bcTasks[i].phase = "timer"
    /\ now >= bcTasks[i].deadline
    /\ lastBroadcast' = now
    /\ bcTasks' = [bcTasks EXCEPT ![i].phase = "written"]
    /\ IF statsLock = NoSub
          THEN /\ lastUpdate' = <<Marshal>>
               /\ rx' = [k \in Subs |->
                           IF InSeq(connections, k) /\ subConn[k] = "open"
                              THEN Append(rx[k], [kind |-> "broadcast", frame |-> Marshal])
                              ELSE rx[k]]
               /\ connections' = SelectSeq(connections, LAMBDA k : subConn[k] = "open")
               /\ emits' = Append(emits, now)
               /\ owed' = NoTime
          ELSE UNCHANGED <<lastUpdate, rx, connections, emits, owed>>
    /\ UNCHANGED <<now, updated, statsListener, statsLock, subPc, subConn, tsPc>>
    /\ UNCHANGED <<auxVars, mainVars, procVars, hostVars, tunnelVars, statVars, fwdVars, copyVars, acVars>>

\* s.updated = false, the last statement of the broadcast goroutine
BroadcastDone(i) ==
    /\ i \in 1..Len(bcTasks)
    /\ bcTasks[i].phase = "written"
    /\ updated' = FALSE
    /\ bcTasks' = RemoveAt(bcTasks, i)
    /\ UNCHANGED <<now, lastBroadcast, statsListener, statsLock, connections,
                   lastUpdate, subPc, subConn, rx, emits, tsPc, owed>>
    /\ UNCHANGED <<auxVars, mainVars, procVars, hostVars, tunnelVars, statVars, fwdVars, copyVars, acVars>>

FreeSubs == {k \in Subs : subPc[k] = "none"}

\* transmitStats: conn, err := s.statsListener.Accept() returns a subscriber
\* (addConnection returns before the next Accept)
StatsAccept(k) ==
    /\ tsPc = "accept"
    /\ statsListener = "open"
    /\ \A j \in Subs : subPc[j] \in {"none", "added"}
    /\ k \in FreeSubs /\ \A j \in FreeSubs : k <= j
    /\ subPc' = [subPc EXCEPT ![k] = "accepted"]
    /\ subConn' = [subConn EXCEPT ![k] = "open"]
    /\ UNCHANGED <<now, updated, bcTasks, lastBroadcast, statsListener, statsLock,
                   connections, lastUpdate, rx, emits, tsPc, owed>>
    /\ UNCHANGED <<auxVars, mainVars, procVars, hostVars, tunnelVars, statVars, fwdVars, copyVars, acVars>>

\* transmitStats: Accept fails on the closed listener; the acceptor returns
StatsAcceptExit ==
    /\ tsPc = "accept"
    /\ statsListener = "closed"
    /\ \A j \in Subs : subPc[j] \in {"none", "added"}
    /\ tsPc' = "exited"
    /\ UNCHANGED <<now, updated, bcTasks, lastBroadcast, statsListener, statsLock,
                   connections, lastUpdate, subPc, subConn, rx, emits, owed>>
    /\ UNCHANGED <<auxVars, mainVars, procVars, hostVars, tunnelVars, statVars, fwdVars, copyVars, acVars>>

\* addConnection: s.lock.Lock()
AddConnectionLock(k) ==
    /\ subPc[k] = "accepted"
    /\ statsLock = NoSub
    /\ statsLock' = k
    /\ subPc' = [subPc EXCEPT ![k] = "adding"]
    /\ UNCHANGED <<now, updated, bcTasks, lastBroadcast, statsListener, connections,
                   lastUpdate, subConn, rx, emits, tsPc, owed>>
    /\ UNCHANGED <<auxVars, mainVars, procVars, hostVars, tunnelVars, statVars, fwdVars, copyVars, acVars>>

\* variant of AddConnectionBody that registers the connection without writing
\* the last snapshot
AddConnectionBody_NoSnapshot(k) ==
    /\ subPc[k] = "adding"
    /\ connections' = Append(connections, k)
    /\ statsLock' = NoSub
    /\ subPc' = [subPc EXCEPT ![k] = "added"]
    /\ UNCHANGED <<now, updated, bcTasks, lastBroadcast, statsListener, lastUpdate,
                   subConn, rx, emits, tsPc, owed>>
    /\ UNCHANGED <<auxVars, mainVars, procVars, hostVars, tunnelVars, statVars, fwdVars, copyVars, acVars>>

\* addConnection under the lock: if len(s.lastUpdate) > 0 { conn.Write(s.lastUpdate) };
\* s.connections = append(s.connections, conn); unlock
AddConnectionBody(k) ==
    /\ subPc[k] = "adding"
    /\ rx' = [rx EXCEPT ![k] =
                 IF Len(lastUpdate) > 0 /\ subConn[k] = "open"
                    THEN Append(@, [kind |-> "snapshot", frame |-> lastUpdate[1]])
                    ELSE @]
    /\ connections' = Append(connections, k)
    /\ statsLock' = NoSub
    /\ subPc' = [subPc EXCEPT ![k] = "added"]
    /\ UNCHANGED <<now, updated, bcTasks, lastBroadcast, statsListener, lastUpdate,
                   subConn, emits, tsPc, owed>>
    /\ UNCHANGED <<auxVars, mainVars, procVars, hostVars, tunnelVars, statVars, fwdVars, copyVars, acVars>>

\* the subscriber's end goes away: later writes to the connection fail
SubscriberGone(k) ==
    /\ subConn[k] = "open"
    /\ subConn' = [subConn EXCEPT ![k] = "broken"]
    /\ UNCHANGED <<now, updated, bcTasks, lastBroadcast, statsListener, statsLock,
                   connections, lastUpdate, subPc, rx, emits, tsPc, owed>>
    /\ UNCHANGED <<auxVars, mainVars, procVars, hostVars, tunnelVars, statVars, fwdVars, copyVars, acVars>>

\* statsBroadcaster, case <-ctx.Done(): s.closeAllConnections(); return
\* closeAllConnections: lock; close every connection of s.connections; close
\* the listener; unlock
BroadcasterCancel ==
    /\ bcPc = "select"
    /\ ctxDone
    /\ statsLock = NoSub
    /\ subConn' = [k \in Subs |-> IF InSeq(connections, k) THEN "closed" ELSE subConn[k]]
    /\ statsListener' = "closed"
    /\ bcPc' = "exited"
    /\ UNCHANGED <<now, updated, bcTasks, lastBroadcast, statsLock, connections,
                   lastUpdate, subPc, rx, emits, tsPc, owed>>
    /\ UNCHANGED <<auxVars, mainVars, ctxDone, hostVars, tunnelVars, statVars, fwdVars, copyVars, acVars>>

\* monitorShutdown: cancel()
Cancel ==
    /\ ~ctxDone
    /\ ctxDone' = TRUE
    /\ UNCHANGED <<auxVars, mainVars, bcPc, mgrVars, hostVars, tunnelVars, statVars, fwdVars, copyVars, acVars>>

\* a copy task adds to a counter of tunnel 1 and signals the update channel
\* (t.stats.Received += int64(nw); t.stats.updateChan <- struct{}{})
StatsSignal ==
    /\ \E nw \in 0..1 :
         /\ stats[1].Received + nw <= MaxStat
         /\ stats' = [stats EXCEPT ![1].Received = @ + nw]
         /\ wrote' = [wrote EXCEPT ![1][1] = @ + nw]
    /\ ReceiveUpdate
    /\ UNCHANGED <<auxVars, mainVars, procVars, hostVars, tunnelVars, fwdVars, copyVars, acVars>>

\* a second of the stats clock passes; a timer that is due fires first, and
\* a broadcast goroutine finishes in no time
ClockTick ==
    /\ now < MaxTime
    /\ \A i \in 1..Len(bcTasks) :
         bcTasks[i].phase = "timer" /\ bcTasks[i].deadline > now
    /\ now' = now + 1
    /\ UNCHANGED <<updated, bcTasks, lastBroadcast, statsListener, statsLock,
                   connections, lastUpdate, subPc, subConn, rx, emits, tsPc, owed>>
    /\ UNCHANGED <<auxVars, mainVars, procVars, hostVars, tunnelVars, statVars, fwdVars, copyVars, acVars>>

(***************************************************************************)
(* Host.Open                                                               *)
(***************************************************************************)
\* variant of HostOpenLock that enters Open without taking h.lock
HostOpenLock_NoMutex(c) ==
    /\ fpc[c] = "open"
    /\ hostLock' = c
    /\ fpc' = [fpc EXCEPT ![c] = "opening"]
    /\ UNCHANGED <<client, sessions, connTunnel, creg, local, remote, connCancel>>
    /\ UNCHANGED <<auxVars, mainVars, procVars, mgrVars, tunnelVars, statVars, copyVars, acVars>>

\* h.lock.Lock() at the head of Open
HostOpenLock(c) ==
    /\ fpc[c] = "open"
    /\ hostLock = NoConn
    /\ hostLock' = c
    /\ fpc' = [fpc EXCEPT ![c] = "opening"]
    /\ UNCHANGED <<client, sessions, connTunnel, creg, local, remote, connCancel>>
    /\ UNCHANGED <<auxVars, mainVars, procVars, mgrVars, tunnelVars, statVars, copyVars, acVars>>

\* variant of HostOpenBody whose caller goes on to Dial after a failed ssh.Dial
HostOpenBody_IgnoreFailure(c) ==
    /\ fpc[c] = "opening"
    /\ hostLock' = NoConn
    /\ IF client
          THEN UNCHANGED <<client, sessions>>
          ELSE \E ok \in BOOLEAN :
               /\ client' = ok
               /\ sessions' = IF ok THEN sessions + 1 ELSE sessions
    /\ fpc' = [fpc EXCEPT ![c] = "dial"]
    /\ UNCHANGED <<connTunnel, creg, local, remote, connCancel>>
    /\ UNCHANGED <<auxVars, mainVars, procVars, mgrVars, tunnelVars, statVars, copyVars, acVars>>

\* the body of Open under the lock: reuse the client, or ssh.Dial (ok or error)
HostOpenBody(c) ==
    /\ fpc[c] = "opening"
    /\ hostLock' = NoConn
    /\ IF client
          THEN /\ fpc' = [fpc EXCEPT ![c] = "dial"]
               /\ UNCHANGED <<client, sessions>>
          ELSE \E ok \in BOOLEAN :
               /\ client' = ok
               /\ sessions' = IF ok THEN sessions + 1 ELSE sessions
               /\ fpc' = [fpc EXCEPT ![c] = IF ok THEN "dial" ELSE "abandoned"]
    /\ UNCHANGED <<connTunnel, creg, local, remote, connCancel>>
    /\ UNCHANGED <<auxVars, mainVars, procVars, mgrVars, tunnelVars, statVars, copyVars, acVars>>

(***************************************************************************)
(* Host.Dial                                                               *)
(***************************************************************************)
HostDialLock(c) ==
    /\ fpc[c] = "dial"
    /\ hostLock = NoConn
    /\ hostLock' = c
    /\ fpc' = [fpc EXCEPT ![c] = "dialing"]
    /\ UNCHANGED <<client, sessions, connTunnel, creg, local, remote, connCancel>>
    /\ UNCHANGED <<auxVars, mainVars, procVars, mgrVars, tunnelVars, statVars, copyVars, acVars>>

\* h.client.Dial succeeds or fails; on success forward starts its two copy
\* goroutines (wg.Add(2), connected1 = connected2 = true)
HostDialBody(c) ==
    /\ fpc[c] = "dialing"
    /\ hostLock' = NoConn
    /\ \E ok \in BOOLEAN :
         IF ok
            THEN /\ remote' = [remote EXCEPT ![c] = "open"]
                 /\ fpc' = [fpc EXCEPT ![c] = "relay"]
                 /\ cpc' = [cpc EXCEPT ![c] = [d \in Dirs |-> "read"]]
            ELSE /\ fpc' = [fpc EXCEPT ![c] = "abandoned"]
                 /\ UNCHANGED <<remote, cpc>>
    /\ UNCHANGED <<client, sessions, connTunnel, creg, local, connCancel>>
    /\ UNCHANGED <<nwReg, ldReg, brkReg, connected, finishOrder, chunks>>
    /\ UNCHANGED <<auxVars, mainVars, procVars, mgrVars, tunnelVars, statVars, acVars>>

(***************************************************************************)
(* Tunnel.Open                                                             *)
(***************************************************************************)
\* t.stats = &TunnelStats{...}; tunnelStats = append(...); net.Listen
TunnelOpenListen(t) ==
    /\ tpc[t] = "created"
    /\ tunnelStats' = Append(tunnelStats, t)
    /\ \E ok \in BOOLEAN :
         /\ listener' = [listener EXCEPT ![t] = IF ok THEN "open" ELSE "none"]
         /\ boundAddr' = [boundAddr EXCEPT ![t] = IF ok THEN LocalAddr(t) ELSE 0]
    /\ tpc' = [tpc EXCEPT ![t] = "notify"]
    /\ UNCHANGED <<ready, lcPc, acceptRes>>
    /\ UNCHANGED <<auxVars, mainVars, procVars, mgrVars, hostVars, statVars, fwdVars, copyVars, acVars>>

\* variant of TunnelOpenNotify that goes on to the accept loop after a failed
\* bind
TunnelOpenNotify_NoReturn(t) ==
    /\ tpc[t] = "notify"
    /\ ready' = [ready EXCEPT ![t] = Append(@, listener[t] = "open")]
    /\ lcPc' = [lcPc EXCEPT ![t] = "waiting"]
    /\ tpc' = [tpc EXCEPT ![t] = "accept"]
    /\ UNCHANGED <<listener, boundAddr, acceptRes, tunnelStats>>
    /\ UNCHANGED <<auxVars, mainVars, procVars, mgrVars, hostVars, statVars, fwdVars, copyVars, acVars>>

\* listeningChan <- false; return   |   listeningChan <- true; go func(){<-ctx.Done() ...}
TunnelOpenNotify(t) ==
    /\ tpc[t] = "notify"
    /\ ready' = [ready EXCEPT ![t] = Append(@, listener[t] = "open")]
    /\ IF listener[t] = "open"
          THEN /\ lcPc' = [lcPc EXCEPT ![t] = "waiting"]
               /\ tpc' = [tpc EXCEPT ![t] = "accept"]
          ELSE /\ tpc' = [tpc EXCEPT ![t] = "returned"]
               /\ UNCHANGED lcPc
    /\ UNCHANGED <<listener, boundAddr, acceptRes, tunnelStats>>
    /\ UNCHANGED <<auxVars, mainVars, procVars, mgrVars, hostVars, statVars, fwdVars, copyVars, acVars>>

\* go func() { <-ctx.Done(); _ = localListener.Close() }()
ListenerCloser(t) ==
    /\ lcPc[t] = "waiting"
    /\ ctxDone
    /\ listener' = [listener EXCEPT ![t] = "closed"]
    /\ lcPc' = [lcPc EXCEPT ![t] = "done"]
    /\ UNCHANGED <<tpc, boundAddr, ready, acceptRes, tunnelStats>>
    /\ UNCHANGED <<auxVars, mainVars, procVars, mgrVars, hostVars, statVars, fwdVars, copyVars, acVars>>

IdleConns == {c \in Conns : fpc[c] = "idle" /\ local[c] = "none"}

\* localConn, err = localListener.Accept()
TunnelAccept(t) ==
    /\ tpc[t] = "accept"
    /\ \/ /\ listener[t] = "open"
          /\ IdleConns # {}
          /\ LET c == CHOOSE x \in IdleConns : \A y \in IdleConns : x <= y
             IN /\ acceptRes' = [acceptRes EXCEPT ![t] = c]
                /\ local' = [local EXCEPT ![c] = "open"]
                /\ connTunnel' = [connTunnel EXCEPT ![c] = t]
       \/ /\ listener[t] = "closed"
          /\ acceptRes' = [acceptRes EXCEPT ![t] = AcceptErr]
          /\ UNCHANGED <<local, connTunnel>>
    /\ tpc' = [tpc EXCEPT ![t] = "signal"]
    /\ UNCHANGED <<listener, boundAddr, ready, lcPc, tunnelStats>>
    /\ UNCHANGED <<fpc, creg, remote, connCancel>>
    /\ UNCHANGED <<auxVars, mainVars, procVars, mgrVars, hostVars, statVars, copyVars, acVars>>

\* updateChan <- struct{}{}; if err != nil { return }; go t.forward(localConn)
TunnelAcceptSignal(t) ==
    /\ tpc[t] = "signal"
    /\ ReceiveUpdate
    /\ IF acceptRes[t] = AcceptErr
          THEN /\ tpc' = [tpc EXCEPT ![t] = "returned"]
               /\ UNCHANGED fpc
          ELSE /\ tpc' = [tpc EXCEPT ![t] = "accept"]
               /\ fpc' = [fpc EXCEPT ![acceptRes[t]] = "inc_load"]
    /\ acceptRes' = [acceptRes EXCEPT ![t] = NoConn]
    /\ UNCHANGED <<auxVars, mainVars, ctxDone, bcPc>>
    /\ UNCHANGED <<listener, boundAddr, ready, lcPc, tunnelStats>>
    /\ UNCHANGED <<connTunnel, creg, local, remote, connCancel>>
    /\ UNCHANGED <<hostVars, statVars, copyVars, acVars>>

(***************************************************************************)
(* Tunnel.forward                                                          *)
(***************************************************************************)
\* t.stats.Connections++ : the load
ForwardIncLoad(c) ==
    /\ fpc[c] = "inc_load"
    /\ creg' = [creg EXCEPT ![c] = stats[connTunnel[c]].Connections]
    /\ fpc' = [fpc EXCEPT ![c] = "inc_store"]
    /\ UNCHANGED <<connTunnel, local, remote, connCancel>>
    /\ UNCHANGED <<auxVars, mainVars, procVars, mgrVars, hostVars, tunnelVars, statVars, copyVars, acVars>>

\* t.stats.Connections++ : the store
ForwardIncStore(c) ==
    /\ fpc[c] = "inc_store"
    /\ stats' = [stats EXCEPT ![connTunnel[c]].Connections = creg[c] + 1]
    /\ fpc' = [fpc EXCEPT ![c] = "open"]
    /\ creg' = [creg EXCEPT ![c] = 0]
    /\ UNCHANGED <<wrote, connTunnel, local, remote, connCancel>>
    /\ UNCHANGED <<auxVars, mainVars, procVars, mgrVars, hostVars, tunnelVars, copyVars, acVars>>

\* variant of ForwardWait that raises the cancellation without waiting for the
\* copy tasks
ForwardWait_NoWait(c) ==
    /\ fpc[c] = "relay"
    /\ connCancel' = [connCancel EXCEPT ![c] = TRUE]
    /\ fpc' = [fpc EXCEPT ![c] = "done"]
    /\ UNCHANGED <<connTunnel, creg, local, remote>>
    /\ UNCHANGED <<auxVars, mainVars, procVars, mgrVars, hostVars, tunnelVars, statVars, copyVars, acVars>>

\* wg.Wait(); cancel()
ForwardWait(c) ==
    /\ fpc[c] = "relay"
    /\ \A d \in Dirs : cpc[c][d] = "done"
    /\ connCancel' = [connCancel EXCEPT ![c] = TRUE]
    /\ fpc' = [fpc EXCEPT ![c] = "done"]
    /\ UNCHANGED <<connTunnel, creg, local, remote>>
    /\ UNCHANGED <<auxVars, mainVars, procVars, mgrVars, hostVars, tunnelVars, statVars, copyVars, acVars>>

(***************************************************************************)
(* Tunnel.copy, direction d of connection c.                               *)
(* d = 1: copy(sshConn, localConn, true)  counts Received                  *)
(* d = 2: copy(localConn, sshConn, false) counts Transmitted               *)
(***************************************************************************)
Src(c, d) == IF d = 1 THEN local[c] ELSE remote[c]
Dst(c, d) == IF d = 1 THEN remote[c] ELSE local[c]

\* nr, er := src.Read(buf); if nr > 0 { nw, ew := dst.Write(buf[0:nr]) ... }
\* The loop ends after the chunk when ew != nil, nr != nw or er != nil.
CopyRead(c, d) ==
    /\ cpc[c][d] = "read"
    /\ \/ /\ Src(c, d) = "open"
          /\ chunks < MaxChunk
          /\ chunks' = chunks + 1
          /\ \E nr \in 1..MaxRead, nw \in 0..MaxRead, brk \in BOOLEAN :
               /\ nw <= nr
               /\ (Dst(c, d) # "open") => (nw = 0)
               /\ (nw # nr) => brk
               /\ nwReg' = [nwReg EXCEPT ![c][d] = nw]
               /\ brkReg' = [brkReg EXCEPT ![c][d] = brk]
               /\ wrote' = [wrote EXCEPT ![connTunnel[c]][d] = @ + nw]
          /\ cpc' = [cpc EXCEPT ![c][d] = "load"]
       \/ \* nr = 0 and er != nil: end of stream, or the stream was closed
          /\ cpc' = [cpc EXCEPT ![c][d] = "finish"]
          /\ UNCHANGED <<chunks, nwReg, brkReg, wrote>>
    /\ UNCHANGED <<stats, ldReg, connected, finishOrder>>
    /\ UNCHANGED <<auxVars, mainVars, procVars, mgrVars, hostVars, tunnelVars, fwdVars, acVars>>

\* t.stats.Received += int64(nw) : the load
CopyLoad(c, d) ==
    /\ cpc[c][d] = "load"
    /\ ldReg' = [ldReg EXCEPT ![c][d] = stats[connTunnel[c]][CounterOf(d)]]
    /\ cpc' = [cpc EXCEPT ![c][d] = "store"]
    /\ UNCHANGED <<nwReg, brkReg, connected, finishOrder, chunks>>
    /\ UNCHANGED <<auxVars, mainVars, procVars, mgrVars, hostVars, tunnelVars, statVars, fwdVars, acVars>>

\* t.stats.Received += int64(nw) : the store
CopyStore(c, d) ==
    /\ cpc[c][d] = "store"
    /\ stats' = [stats EXCEPT ![connTunnel[c]][CounterOf(d)] = ldReg[c][d] + nwReg[c][d]]
    /\ cpc' = [cpc EXCEPT ![c][d] = "send"]
    /\ nwReg' = [nwReg EXCEPT ![c][d] = 0]
    /\ ldReg' = [ldReg EXCEPT ![c][d] = 0]
    /\ UNCHANGED <<wrote, brkReg, connected, finishOrder, chunks>>
    /\ UNCHANGED <<auxVars, mainVars, procVars, mgrVars, hostVars, tunnelVars, fwdVars, acVars>>

\* t.stats.updateChan <- struct{}{}; then break or loop
CopySend(c, d) ==
    /\ cpc[c][d] = "send"
    /\ ReceiveUpdate
    /\ cpc' = [cpc EXCEPT ![c][d] = IF brkReg[c][d] THEN "finish" ELSE "read"]
    /\ brkReg' = [brkReg EXCEPT ![c][d] = FALSE]
    /\ UNCHANGED <<auxVars, mainVars, ctxDone, bcPc>>
    /\ UNCHANGED <<nwReg, ldReg, connected, finishOrder, chunks>>
    /\ UNCHANGED <<hostVars, tunnelVars, statVars, fwdVars, acVars>>

\* connected1 = false; connections.Add(-1)
CopyFinish(c, d) ==
    /\ cpc[c][d] = "finish"
    /\ connected' = [connected EXCEPT ![c][d] = FALSE]
    /\ finishOrder' = [finishOrder EXCEPT ![c] = Append(@, d)]
    /\ cpc' = [cpc EXCEPT ![c][d] = "check"]
    /\ UNCHANGED <<nwReg, ldReg, brkReg, chunks>>
    /\ UNCHANGED <<auxVars, mainVars, procVars, mgrVars, hostVars, tunnelVars, statVars, fwdVars, acVars>>

\* variant of FlagReads without the ordering the atomic counter gives: a task
\* may read the other's flag as true whenever it was true at some time
FlagReads_Unordered(c, d) ==
    IF connected[c][Other(d)] THEN {TRUE} ELSE {TRUE, FALSE}

\* The values `if connected2` may read in direction 1 (and symmetrically).
\* The flags are plain variables; the atomic connections.Add(-1) after each
\* write orders the two tasks: the task whose Add came second reads the
\* other's write, the task whose Add came first may or may not.
FlagReads(c, d) ==
    IF connected[c][Other(d)] THEN {TRUE}
    ELSE IF finishOrder[c][1] = Other(d) THEN {FALSE}
    ELSE {TRUE, FALSE}

\* if connected2 { go closer() }; wg.Done()
CopyCheck(c, d) ==
    /\ cpc[c][d] = "check"
    /\ \E seen \in FlagReads(c, d) :
         IF seen
            THEN /\ acPc' = [acPc EXCEPT ![c][d] = "waiting"]
                 /\ acElapsed' = [acElapsed EXCEPT ![c][d] = 0]
            ELSE UNCHANGED <<acPc, acElapsed>>
    /\ cpc' = [cpc EXCEPT ![c][d] = "done"]
    /\ UNCHANGED <<nwReg, ldReg, brkReg, connected, finishOrder, chunks>>
    /\ UNCHANGED <<auxVars, mainVars, procVars, mgrVars, hostVars, tunnelVars, statVars, fwdVars>>

(***************************************************************************)
(* Tunnel.autoClose                                                        *)
(***************************************************************************)
CloseStream(s) == IF s = "none" THEN "none" ELSE "closed"

\* case <-timer.C: status = "triggered"; conn.Close(); conn2.Close()
\* variant of AutoCloseTimer that closes the local stream only
AutoCloseTimer_LeakRemote(c, d) ==
    /\ acPc[c][d] = "waiting"
    /\ acElapsed[c][d] >= AutoCloseGrace
    /\ acPc' = [acPc EXCEPT ![c][d] = "triggered"]
    /\ local' = [local EXCEPT ![c] = CloseStream(@)]
    /\ UNCHANGED <<remote, acElapsed, fpc, connTunnel, creg, connCancel>>
    /\ UNCHANGED <<auxVars, mainVars, procVars, mgrVars, hostVars, tunnelVars, statVars, copyVars>>

AutoCloseTimer(c, d) ==
    /\ acPc[c][d] = "waiting"
    /\ acElapsed[c][d] >= AutoCloseGrace
    /\ acPc' = [acPc EXCEPT ![c][d] = "triggered"]
    /\ local' = [local EXCEPT ![c] = CloseStream(@)]
    /\ remote' = [remote EXCEPT ![c] = CloseStream(@)]
    /\ UNCHANGED <<acElapsed, fpc, connTunnel, creg, connCancel>>
    /\ UNCHANGED <<auxVars, mainVars, procVars, mgrVars, hostVars, tunnelVars, statVars, copyVars>>

\* case <-ctx.Done(): conn.Close(); conn2.Close()
AutoCloseCancel(c, d) ==
    /\ acPc[c][d] = "waiting"
    /\ connCancel[c]
    /\ acPc' = [acPc EXCEPT ![c][d] = "terminated"]
    /\ local' = [local EXCEPT ![c] = CloseStream(@)]
    /\ remote' = [remote EXCEPT ![c] = CloseStream(@)]
    /\ UNCHANGED <<acElapsed, fpc, connTunnel, creg, connCancel>>
    /\ UNCHANGED <<auxVars, mainVars, procVars, mgrVars, hostVars, tunnelVars, statVars, copyVars>>

Waiting == {cd \in Conns \X Dirs : acPc[cd[1]][cd[2]] = "waiting"}

\* Time passes for the auto-closers' timers; a timer that has expired is
\* delivered before more time passes.
Tick ==
    /\ Waiting # {}
    /\ \A cd \in Waiting : acElapsed[cd[1]][cd[2]] < AutoCloseGrace
    /\ acElapsed' = [c \in Conns |-> [d \in Dirs |->
                        IF acPc[c][d] = "waiting"
                           THEN Min(acElapsed[c][d] + TickLen, AutoCloseGrace)
                           ELSE acElapsed[c][d]]]
    /\ UNCHANGED acPc
    /\ UNCHANGED <<auxVars, mainVars, procVars, mgrVars, hostVars, tunnelVars, statVars, fwdVars, copyVars>>

(***************************************************************************)
(* The relay: one tunnel that is listening, its connections, the Host.     *)
(***************************************************************************)
(***************************************************************************)
(* Stats frames: json.Marshal, writeUpdate's zero padding, and the         *)
(* subscriber's read loop in receiveStats.                                 *)
(***************************************************************************)
\* zeros: 256 zero bytes
zeros == [i \in 1..FrameSize |-> 0]

\* the decimal digits of v, as ASCII bytes
RECURSIVE Digits(_)
Digits(v) == IF v < 10 THEN <<48 + v>> ELSE Digits(v \div 10) \o <<48 + (v % 10)>>

\* one TunnelStats value of the serialized record: connections, received,
\* transmitted
EncodeStats(st) ==
    Digits(st.Connections) \o <<44>> \o Digits(st.Received) \o <<44>>
        \o Digits(st.Transmitted) \o <<59>>

RECURSIVE EncodeAll(_)
EncodeAll(rec) ==
    IF rec = <<>> THEN <<>> ELSE EncodeStats(Head(rec)) \o EncodeAll(Tail(rec))

\* json.Marshal(tunnelStats): a bracketed list, one entry per TunnelStats; no
\* byte of it is zero
Encode(rec) == <<91>> \o EncodeAll(rec) \o <<93>>

\* the records a publisher with one tunnel can serialize
FrameRecords ==
    {<<[Connections |-> c, Received |-> r, Transmitted |-> 0]>> : c, r \in 0..MaxStat}

\* json.Unmarshal: <<rec>> when the bytes are the serialization of rec, <<>> on
\* an error
Decode(bytes) ==
    IF \E rec \in FrameRecords : Encode(rec) = bytes
       THEN <<CHOOSE rec \in FrameRecords : Encode(rec) = bytes>>
       ELSE <<>>

\* variant of Frame that pads up to the boundary only when the payload does
\* not already end on it
Frame_RoundUp(update) ==
    LET x == (FrameSize - (Len(update) % FrameSize)) % FrameSize
    IN update \o SubSeq(zeros, FrameSize - x + 1, FrameSize)

\* writeUpdate: x := 256 - (len(update) % 256); append(update, zeros[256-x:]...)
Frame(update) ==
    LET x == FrameSize - (Len(update) % FrameSize)
    IN update \o SubSeq(zeros, FrameSize - x + 1, FrameSize)

\* a payload of L bytes, none of them zero
PayloadOf(L) == [i \in 1..L |-> 1 + (i % 9)]

\* writeUpdate builds s.lastUpdate from the update it was handed
WriteUpdatePad ==
    /\ frame = <<>>
    /\ frame' = <<Frame(payload)>>
    /\ UNCHANGED <<payload, fsent, wire, bs, str, parsed, shortReads, badSent, rsPc>>
    /\ UNCHANGED <<exitVars, addrVars, cfgVars, mainVars, procVars, mgrVars, hostVars, tunnelVars, statVars, fwdVars, copyVars, acVars>>

\* the publisher serializes rec and writeUpdate writes its frame to the feed
\* connection
FramePublish(rec) ==
    /\ Len(fsent) + Len(badSent) < MaxFrames
    /\ fsent' = Append(fsent, rec)
    /\ wire' = wire \o Frame(Encode(rec))
    /\ UNCHANGED <<payload, frame, bs, str, parsed, shortReads, badSent, rsPc>>
    /\ UNCHANGED <<exitVars, addrVars, cfgVars, mainVars, procVars, mgrVars, hostVars, tunnelVars, statVars, fwdVars, copyVars, acVars>>

FirstZero(q) == CHOOSE i \in 1..Len(q) : q[i] = 0 /\ \A j \in 1..(i - 1) : q[j] # 0

\* receiveStats, one turn of the loop: n, err = conn.Read(bs) returns n bytes;
\* str = str + string(bs); if bs[n-1] == 0 { str = str[:IndexByte(str, 0)];
\* json.Unmarshal; print when err == nil; str = "" }
ReceiveStatsFrame(n) ==
    /\ rsPc = "reading"
    /\ n \in 1..Min(BufSize, Len(wire))
    /\ n = Min(BufSize, Len(wire)) \/ shortReads < MaxShortReads
    /\ shortReads' = IF n < Min(BufSize, Len(wire)) THEN shortReads + 1 ELSE shortReads
    /\ LET nbs == [i \in 1..BufSize |-> IF i <= n THEN wire[i] ELSE bs[i]]
           acc == str \o nbs
       IN /\ bs' = nbs
          /\ wire' = SubSeq(wire, n + 1, Len(wire))
          /\ IF nbs[n] = 0
                THEN /\ parsed' = parsed \o Decode(SubSeq(acc, 1, FirstZero(acc) - 1))
                     /\ str' = <<>>
                ELSE /\ str' = acc
                     /\ UNCHANGED parsed
    /\ UNCHANGED <<payload, frame, fsent, badSent, rsPc>>
    /\ UNCHANGED <<exitVars, addrVars, cfgVars, mainVars, procVars, mgrVars, hostVars, tunnelVars, statVars, fwdVars, copyVars, acVars>>

\* a payload that json.Unmarshal rejects: "[x"
BadPayload == <<91, 120>>

\* the peer writes a frame whose payload does not parse
FramePublishBad ==
    /\ Len(fsent) + Len(badSent) < MaxFrames
    /\ badSent' = Append(badSent, Len(fsent))
    /\ wire' = wire \o Frame(BadPayload)
    /\ UNCHANGED <<payload, frame, fsent, bs, str, parsed, shortReads, rsPc>>
    /\ UNCHANGED <<exitVars, addrVars, cfgVars, mainVars, procVars, mgrVars, hostVars, tunnelVars, statVars, fwdVars, copyVars, acVars>>

\* receiveStats: conn.Read returns an error (the peer closed the connection
\* after everything written was read, or the context was cancelled):
\* conn.Close(); return
ReceiveStatsError ==
    /\ rsPc = "reading"
    /\ wire = <<>>
    /\ rsPc' = "returned"
    /\ UNCHANGED <<payload, frame, fsent, wire, bs, str, parsed, shortReads, badSent>>
    /\ UNCHANGED <<exitVars, addrVars, cfgVars, mainVars, procVars, mgrVars, hostVars, tunnelVars, statVars, fwdVars, copyVars, acVars>>

(***************************************************************************)
(* Configuration.Validate: Host.Validate, Tunnel.Validate,                 *)
(* validateJumpHosts, the pruning of unused hosts; loadConfiguration.       *)
(* A name is a tuple of strings: <<"A">>, the blank name <<"">>, and the    *)
(* synthetic tunnel's "<J> jumphost" is <<J, "jumphost">>.                  *)
(***************************************************************************)
Blank == ""
OrigAddr(i) == 100 + i          \* the address host i is configured with
Loopback(port) == 200 + port    \* 127.0.0.1:<port>
ForwardAddr(t) == 300 + t       \* the forward address tunnel t is configured with
EntranceAddr(t) == 400 + t      \* the local address tunnel t is configured with

\* fmt.Sprintf("%s jumphost", jumpHost.Name)
JumpTunnelName(j) == <<j, "jumphost">>

\* the configurations: only the first host and the first tunnel may have a
\* blank name or an attribute that fails its own check (address, identity,
\* known_hosts); later ones may repeat the first one's name; a host may name
\* itself or a later host as its jump host, the first one also an undefined one
HostEntries(i) ==
    {[name |-> n, jump |-> j, ok |-> o] :
        n \in {HostNames[i]} \cup (IF i = 1 THEN {Blank} ELSE {HostNames[1]}),
        j \in {Blank} \cup {HostNames[k] : k \in i..Len(HostNames)}
                      \cup (IF i = 1 THEN {"X"} ELSE {}),
        o \in (IF i = 1 THEN BOOLEAN ELSE {TRUE})}

TunnelEntries(t) ==
    {[name |-> <<n>>, host |-> h, forward |-> ForwardAddr(t), local |-> EntranceAddr(t),
      synth |-> FALSE, ok |-> o] :
        n \in {TunnelNames[t]} \cup (IF t = 1 THEN {Blank} ELSE {TunnelNames[1]}),
        h \in {HostNames[k] : k \in 1..Len(HostNames)} \cup (IF t = 1 THEN {Blank, "X"} ELSE {}),
        o \in (IF t = 1 THEN BOOLEAN ELSE {TRUE})}

Configurations ==
    {[hosts |-> <<h1, h2, h3>>, tunnels |-> <<t1, t2>>] :
        h1 \in HostEntries(1), h2 \in HostEntries(2), h3 \in HostEntries(3),
        t1 \in TunnelEntries(1), t2 \in TunnelEntries(2)}

\* m[name] = v on a registry kept as a set of values unique by name
Put(reg, v) == {e \in reg : e.name # v.name} \cup {v}
Has(reg, n) == \E e \in reg : e.name = n
Get(reg, n) == CHOOSE e \in reg : e.name = n

\* variant of HostValidateOk that lets a host name itself as its jump host
HostValidateOk_AllowSelf(h, reg) ==
    /\ h.name # Blank
    /\ ~Has(reg, h.name)
    /\ h.ok

\* Host.Validate's verdict on host h against the registry: the name is not
\* blank and not yet registered, the host's own attributes pass, and its
\* jump_host is not its own name
HostValidateOk(h, reg) ==
    /\ h.name # Blank
    /\ ~Has(reg, h.name)
    /\ h.ok
    /\ ~(h.jump # Blank /\ h.jump = h.name)

\* for _, host := range c.Hosts { if !host.Validate(...) { valid = false } }
\* Host.Validate ends with Hosts[h.Name] = h whatever its verdict
RECURSIVE ValidateHosts(_, _, _)
ValidateHosts(st, hs, i) ==
    IF i > Len(hs) THEN st
    ELSE LET res == HostValidateOk(hs[i], st.hreg)
         IN ValidateHosts([st EXCEPT !.hreg = Put(@, [name |-> hs[i].name, idx |-> i]),
                                     !.valid = @ /\ res,
                                     !.failed = @ \/ ~res,
                                     !.hres = Append(@, res)],
                          hs, i + 1)

\* Tunnel.Validate's verdict on tunnel t: the name is not blank and not yet
\* registered, the addresses pass, the host is named and registered
TunnelValidateOk(st, t) ==
    /\ t.name # <<Blank>>
    /\ ~Has(st.treg, t.name)
    /\ t.ok
    /\ t.host # Blank
    /\ Has(st.hreg, t.host)

\* Tunnel.Validate: host.isHost = true for a registered host; Tunnels[t.Name] = t
TunnelValidate(st, t) ==
    LET res == TunnelValidateOk(st, t)
        marked == IF t.host # Blank /\ Has(st.hreg, t.host)
                     THEN [st.hobj EXCEPT ![Get(st.hreg, t.host).idx].isHost = TRUE]
                     ELSE st.hobj
    IN [st EXCEPT !.hobj = marked,
                  !.treg = Put(@, [name |-> t.name, host |-> t.host, forward |-> t.forward,
                                   local |-> t.local, synth |-> t.synth]),
                  !.failed = @ \/ ~res,
                  !.last = res]

\* for _, tunnel := range c.Tunnels { if !tunnel.Validate() { valid = false } }
RECURSIVE ValidateTunnels(_, _, _)
ValidateTunnels(st, ts, t) ==
    IF t > Len(ts) THEN st
    ELSE LET st1 == TunnelValidate(st, ts[t])
         IN ValidateTunnels([st1 EXCEPT !.valid = @ /\ st1.last], ts, t + 1)

\* variant of RewrittenAddress that leaves the host's address alone
RewrittenAddress_Keep(orig, jumpLocal) == orig

\* h.Address = jumpTunnel.Local
RewrittenAddress(orig, jumpLocal) == jumpLocal

\* the registry entries whose body of validateJumpHosts' loop does something:
\* h.JumpHost != "" && h.isHost
Active(st, hs) == {e \in st.hreg : hs[e.idx].jump # Blank /\ st.hobj[e.idx].isHost}

\* validateJumpHosts' loop over the entries ord[k..]; pr[k] is what freePort
\* returns on the k-th entry, 0 when it finds no port
RECURSIVE JumpHosts(_, _, _, _, _)
JumpHosts(st, hs, ord, pr, k) ==
    IF k > Len(ord) THEN st
    ELSE LET e == ord[k]
             j == hs[e.idx].jump
         IN IF ~Has(st.hreg, j) \/ hs[Get(st.hreg, j).idx].jump # Blank
               THEN JumpHosts([st EXCEPT !.vj = FALSE, !.failed = TRUE], hs, ord, pr, k + 1)
            ELSE IF pr[k] = 0
               THEN [st EXCEPT !.vj = FALSE, !.failed = TRUE, !.portFailed = TRUE]
            ELSE LET jt == [name |-> JumpTunnelName(hs[Get(st.hreg, j).idx].name),
                            host |-> j,
                            forward |-> st.hobj[e.idx].addr,
                            local |-> Loopback(pr[k]),
                            synth |-> TRUE, ok |-> TRUE]
                     st1 == TunnelValidate(st, jt)
                 IN JumpHosts([st1 EXCEPT
                                  !.hobj[e.idx].addr = RewrittenAddress(@, jt.local),
                                  !.synth = @ \cup {[for |-> e.idx, name |-> jt.name,
                                                     host |-> jt.host, forward |-> jt.forward,
                                                     local |-> jt.local]},
                                  !.checked = @ \cup {e.idx}],
                              hs, ord, pr, k + 1)

\* the unused hosts are deleted from Hosts: !host.isHost && !host.isJumpHost
Prune(st) ==
    [st EXCEPT !.hreg = {e \in @ : st.hobj[e.idx].isHost \/ st.hobj[e.idx].isJumpHost}]

\* the orders in which a range over the entries of S can visit them
Orders(S) ==
    {q \in [1..Cardinality(S) -> S] : \A a, b \in 1..Cardinality(S) : a # b => q[a] # q[b]}

\* what freePort can return on successive calls while the listeners of the
\* earlier calls are held open: distinct ports, or no port (0), which ends
\* the loop
PortResults(n) ==
    {q \in [1..n -> 0..NPort] :
        /\ \A a, b \in 1..n : (a # b /\ q[a] # 0) => q[a] # q[b]
        /\ \A a \in 1..n : q[a] = 0 => \A b \in a..n : q[b] = 0}

StartState ==
    [hobj |-> [i \in 1..Len(HostNames) |->
                  [addr |-> OrigAddr(i), isHost |-> FALSE, isJumpHost |-> FALSE]],
     hreg |-> {}, treg |-> {}, valid |-> TRUE, vj |-> TRUE, failed |-> FALSE,
     portFailed |-> FALSE, hres |-> <<>>, last |-> TRUE, synth |-> {}, checked |-> {}]

\* loadConfiguration: config.Validate(username); terminate(1) when it is false
\* Configuration.Validate: validate every host, every tunnel, the jump hosts,
\* delete the unused hosts, return valid
LoadConfiguration ==
    /\ cfgPc = "loaded"
    /\ LET st1 == ValidateHosts(StartState, cfg.hosts, 1)
           st2 == ValidateTunnels(st1, cfg.tunnels, 1)
       IN \E ord \in Orders(Active(st2, cfg.hosts)) :
          \E pr \in PortResults(Len(ord)) :
             LET st3 == JumpHosts(st2, cfg.hosts, ord, pr, 1)
                 st4 == Prune(st3)
                 res == st4.valid /\ st4.vj
             IN /\ hobj' = st4.hobj
                /\ hostReg' = st4.hreg
                /\ tunnelReg' = st4.treg
                /\ cfgValid' = <<res>>
                /\ vjValid' = <<st4.vj>>
                /\ hostRes' = st4.hres
                /\ checkFailed' = st4.failed
                /\ synthBuilt' = st4.synth
                /\ cfgPc' = IF res THEN "running" ELSE "terminated"
    /\ UNCHANGED <<cfg, opened, dialed>>
    /\ UNCHANGED <<exitVars, addrVars, frameVars, mainVars, procVars, mgrVars, hostVars, tunnelVars, statVars, fwdVars, copyVars, acVars>>

\* startTunnels: tunnel tn is opened and relays a connection: forward calls
\* Hosts[t.Host].Open(), which dials h.Address.address
TunnelRelay(tn) ==
    /\ cfgPc = "running"
    /\ tn \in tunnelReg
    /\ tn.name \notin opened
    /\ Has(hostReg, tn.host)
    /\ opened' = opened \cup {tn.name}
    /\ dialed' = dialed \cup {[idx |-> Get(hostReg, tn.host).idx,
                               addr |-> hobj[Get(hostReg, tn.host).idx].addr]}
    /\ UNCHANGED <<cfg, cfgPc, hobj, hostReg, tunnelReg, cfgValid, vjValid, hostRes,
                   checkFailed, synthBuilt>>
    /\ UNCHANGED <<exitVars, addrVars, frameVars, mainVars, procVars, mgrVars, hostVars, tunnelVars, statVars, fwdVars, copyVars, acVars>>

\* no configuration is being validated
InitCfgIdle ==
    /\ cfg = [hosts |-> <<>>, tunnels |-> <<>>]
    /\ cfgPc = "idle"
    /\ hobj = <<>>
    /\ hostReg = {}
    /\ tunnelReg = {}
    /\ cfgValid = <<>>
    /\ vjValid = <<>>
    /\ hostRes = <<>>
    /\ checkFailed = FALSE
    /\ synthBuilt = {}
    /\ opened = {}
    /\ dialed = {}

(***************************************************************************)
(* Address (NewAddress, ValidateAddress, IsBlank, IsValid, Port) and the   *)
(* address part of Tunnel.Validate.  An address text is the sequence of    *)
(* its fields between the ':' characters: strings.Split(text, ":").        *)
(***************************************************************************)
\* the host parts of the address texts and what net.LookupIP answers for
\* them: an error, no address, an IPv4 address, an address that is not IPv4
Resolver ==
    [h \in {"bastion", "nowhere", "v6only", "localhost", "10.0.0.1", "127.0.0.1", "0.0.0.0"} |->
        CASE h = "bastion" -> [kind |-> "err", ip |-> ""]
          [] h = "nowhere" -> [kind |-> "none", ip |-> ""]
          [] h = "v6only" -> [kind |-> "v6", ip |-> ""]
          [] h = "localhost" -> [kind |-> "v4", ip |-> "127.0.0.1"]
          [] OTHER -> [kind |-> "v4", ip |-> h]]

LookupIP(h) == Resolver[h]

\* the port parts of the address texts; strconv.Atoi gives <<i>>, or <<>> on
\* an error
Numerals ==
    {<<"0", 0>>, <<"1", 1>>, <<"22", 22>>, <<"022", 22>>, <<"65535", 65535>>,
     <<"65536", 65536>>, <<"65537", 65537>>}
PortTexts == {nm[1] : nm \in Numerals} \cup {"", "ssh"}

Atoi(txt) ==
    IF \E nm \in Numerals : nm[1] = txt
       THEN <<(CHOOSE nm \in Numerals : nm[1] = txt)[2]>>
       ELSE <<>>

\* fmt.Sprintf("%d", i): the decimal numeral of i without leading zeros
Itoa(i) == CHOOSE txt \in {"0", "1", "22", "65535", "65536", "65537"} : Atoi(txt) = <<i>>

\* the address texts: one to three fields
AddressTexts ==
    {<<h>> : h \in DOMAIN Resolver}
    \cup {<<h, pt>> : h \in DOMAIN Resolver, pt \in PortTexts}
    \cup {<<h, pt, "22">> : h \in {"bastion", "10.0.0.1"}, pt \in {"22", "ssh"}}

NewAddress(text) == [valid |-> FALSE, address |-> text, port |-> 0]

\* a.address == ""
IsBlank(a) == a.address = <<"">>

\* i < 1 || i > 65536 is the error branch
PortInRange(i) == ~(i < 1 \/ i > 65536)

\* Address.ValidateAddress(group, name, attr, remote)
ValidateAddress(a, rem) ==
    LET parts == a.address
    IN IF Len(parts) # 2 THEN [a EXCEPT !.valid = FALSE]
       ELSE LET look == LookupIP(parts[1])
                v1 == CASE look.kind = "err" -> rem
                        [] look.kind = "none" -> FALSE
                        [] OTHER -> TRUE
                a1 == IF look.kind = "v4"
                         THEN (IF ~rem THEN <<look.ip>> ELSE <<parts[1]>>)
                         ELSE a.address
                at == Atoi(parts[2])
            IN IF at = <<>> \/ ~PortInRange(at[1])
                  THEN [valid |-> FALSE, address |-> a1, port |-> a.port]
                  ELSE [valid |-> v1, address |-> a1 \o <<Itoa(at[1])>>, port |-> at[1]]

\* the host part of the local address Tunnel.Validate derives
DefaultEntranceHost == "127.0.0.1"

\* Tunnel.Validate, the forward and local addresses: the forward address is
\* validated when it is there; a missing local address becomes
\* NewAddress("127.0.0.1:<forward's port>") when the forward address is valid;
\* the local address is validated when it is there
TunnelValidateAddresses ==
    /\ tunPc = "new"
    /\ LET fwd == IF tunForward = <<>> \/ IsBlank(tunForward[1])
                     THEN tunForward
                     ELSE <<ValidateAddress(tunForward[1], TRUE)>>
           loc == IF (tunLocal = <<>> \/ IsBlank(tunLocal[1])) /\ fwd # <<>> /\ fwd[1].valid
                     THEN <<NewAddress(<<DefaultEntranceHost, Itoa(fwd[1].port)>>)>>
                     ELSE tunLocal
       IN /\ tunForward' = fwd
          /\ tunLocal' = IF loc = <<>> \/ IsBlank(loc[1])
                            THEN loc
                            ELSE <<ValidateAddress(loc[1], TRUE)>>
    /\ tunPc' = "validated"
    /\ UNCHANGED <<addr, addrRemote, addrPc, tunLocalGiven>>
    /\ UNCHANGED <<exitVars, frameVars, cfgVars, mainVars, procVars, mgrVars, hostVars, tunnelVars, statVars, fwdVars, copyVars, acVars>>

\* a.ValidateAddress(..., remote) on the Address object
AddressValidate ==
    /\ addrPc = "new"
    /\ addr' = ValidateAddress(addr, addrRemote)
    /\ addrPc' = "validated"
    /\ UNCHANGED <<addrRemote, tunForward, tunLocal, tunLocalGiven, tunPc>>
    /\ UNCHANGED <<exitVars, frameVars, cfgVars, mainVars, procVars, mgrVars, hostVars, tunnelVars, statVars, fwdVars, copyVars, acVars>>

\* no address is being validated
InitAddrIdle ==
    /\ addr = NewAddress(<<"">>)
    /\ addrRemote = FALSE
    /\ addrPc = "idle"
    /\ tunForward = <<>>
    /\ tunLocal = <<>>
    /\ tunLocalGiven = FALSE
    /\ tunPc = "idle"

\* no frame is being built, written or read
InitFrameIdle ==
    /\ payload = <<>>
    /\ frame = <<>>
    /\ fsent = <<>>
    /\ wire = <<>>
    /\ bs = [i \in 1..BufSize |-> 0]
    /\ str = <<>>
    /\ parsed = <<>>
    /\ shortReads = 0
    /\ badSent = <<>>
    /\ rsPc = "reading"

InitAux == InitFrameIdle /\ InitCfgIdle /\ InitAddrIdle /\ procExit = <<>>

\* this process is the publisher and runs its tunnels; no other ferret
\* process has been started
InitMain ==
    /\ ipc = [i \in Insts |-> IF i = 1 THEN "tunnels" ELSE "start"]
    /\ bound = {1}
    /\ bindOk = [i \in Insts |-> IF i = 1 THEN <<TRUE>> ELSE <<>>]
    /\ startRet = [i \in Insts |-> IF i = 1 THEN <<TRUE>> ELSE <<>>]
    /\ pubAlive = {1}
    /\ feed = [i \in Insts |-> "none"]
    /\ feedPeer = [i \in Insts |-> 0]
    /\ tunnelsOpened = {1}
    /\ icancel = {}

\* the publisher's StatsManager after StartStatsTunnel: the listener is bound,
\* the broadcaster (lastBroadcast := time.Now().Add(-interval)) and the
\* acceptor run, no subscriber has connected; u: a signal was already received
InitMgr(u) ==
    /\ now = 0
    /\ updated = u
    /\ bcTasks = <<>>
    /\ lastBroadcast = 0 - Interval
    /\ statsListener = "open"
    /\ statsLock = NoSub
    /\ connections = <<>>
    /\ lastUpdate = <<>>
    /\ subPc = [k \in Subs |-> "none"]
    /\ subConn = [k \in Subs |-> "none"]
    /\ rx = [k \in Subs |-> <<>>]
    /\ emits = <<>>
    /\ tsPc = "accept"
    /\ owed = NoTime

InitConn ==
    /\ fpc = [c \in Conns |-> "idle"]
    /\ connTunnel = [c \in Conns |-> 1]
    /\ creg = [c \in Conns |-> 0]
    /\ local = [c \in Conns |-> "none"]
    /\ remote = [c \in Conns |-> "none"]
    /\ connCancel = [c \in Conns |-> FALSE]
    /\ cpc = [c \in Conns |-> [d \in Dirs |-> "off"]]
    /\ nwReg = [c \in Conns |-> [d \in Dirs |-> 0]]
    /\ ldReg = [c \in Conns |-> [d \in Dirs |-> 0]]
    /\ brkReg = [c \in Conns |-> [d \in Dirs |-> FALSE]]
    /\ connected = [c \in Conns |-> [d \in Dirs |-> TRUE]]
    /\ finishOrder = [c \in Conns |-> <<>>]
    /\ chunks = 0
    /\ acPc = [c \in Conns |-> [d \in Dirs |-> "none"]]
    /\ acElapsed = [c \in Conns |-> [d \in Dirs |-> 0]]
    /\ client = FALSE
    /\ hostLock = NoConn
    /\ sessions = 0
    /\ stats = [t \in Tunnels |-> ZeroStats]
    /\ wrote = [t \in Tunnels |-> [d \in Dirs |-> 0]]

\* tunnel 1 has opened its listener and is in its accept loop; the other
\* tunnels' goroutines have not run yet
InitRelay ==
    /\ InitAux
    /\ InitMain
    /\ InitConn
    /\ ctxDone = FALSE
    /\ bcPc = "select"
    /\ InitMgr(FALSE)
    /\ tpc = [t \in Tunnels |-> IF t = 1 THEN "accept" ELSE "created"]
    /\ listener = [t \in Tunnels |-> IF t = 1 THEN "open" ELSE "none"]
    /\ boundAddr = [t \in Tunnels |-> IF t = 1 THEN LocalAddr(t) ELSE 0]
    /\ ready = [t \in Tunnels |-> IF t = 1 THEN <<TRUE>> ELSE <<>>]
    /\ lcPc = [t \in Tunnels |-> IF t = 1 THEN "waiting" ELSE "none"]
    /\ acceptRes = [t \in Tunnels |-> NoConn]
    /\ tunnelStats = <<1>>

NextRelay ==
    \/ \E t \in Tunnels : TunnelAccept(t)
    \/ \E t \in Tunnels : TunnelAcceptSignal(t)
    \/ \E c \in Conns : ForwardIncLoad(c)
    \/ \E c \in Conns : ForwardIncStore(c)
    \/ \E c \in Conns : HostOpenLock(c)
    \/ \E c \in Conns : HostOpenBody(c)
    \/ \E c \in Conns : HostDialLock(c)
    \/ \E c \in Conns : HostDialBody(c)
    \/ \E c \in Conns, d \in Dirs : CopyRead(c, d)
    \/ \E c \in Conns, d \in Dirs : CopyLoad(c, d)
    \/ \E c \in Conns, d \in Dirs : CopyStore(c, d)
    \/ \E c \in Conns, d \in Dirs : CopySend(c, d)
    \/ \E c \in Conns, d \in Dirs : CopyFinish(c, d)
    \/ \E c \in Conns, d \in Dirs : CopyCheck(c, d)
    \/ \E c \in Conns : ForwardWait(c)
    \/ \E c \in Conns, d \in Dirs : AutoCloseTimer(c, d)
    \/ \E c \in Conns, d \in Dirs : AutoCloseCancel(c, d)
    \/ Tick

SpecRelay == InitRelay /\ [][NextRelay]_vars

(***************************************************************************)
(* The Host under concurrent forward tasks: the relay without the copy     *)
(* goroutines' steps (they never touch the Host).                          *)
(***************************************************************************)
NextHost ==
    \/ \E t \in Tunnels : TunnelAccept(t)
    \/ \E t \in Tunnels : TunnelAcceptSignal(t)
    \/ \E c \in Conns : ForwardIncLoad(c)
    \/ \E c \in Conns : ForwardIncStore(c)
    \/ \E c \in Conns : HostOpenLock(c)
    \/ \E c \in Conns : HostOpenBody(c)
    \/ \E c \in Conns : HostDialLock(c)
    \/ \E c \in Conns : HostDialBody(c)

SpecHost == InitRelay /\ [][NextHost]_vars

(***************************************************************************)
(* One relayed connection: connection 1 of tunnel 1 after forward has      *)
(* opened the Host, dialled the forward address and started both copy      *)
(* goroutines.                                                             *)
(***************************************************************************)
InitHalfClose ==
    /\ InitAux
    /\ InitMain
    /\ ctxDone = FALSE
    /\ bcPc = "select"
    /\ InitMgr(TRUE)
    /\ tpc = [t \in Tunnels |-> IF t = 1 THEN "accept" ELSE "created"]
    /\ listener = [t \in Tunnels |-> IF t = 1 THEN "open" ELSE "none"]
    /\ boundAddr = [t \in Tunnels |-> IF t = 1 THEN LocalAddr(t) ELSE 0]
    /\ ready = [t \in Tunnels |-> IF t = 1 THEN <<TRUE>> ELSE <<>>]
    /\ lcPc = [t \in Tunnels |-> IF t = 1 THEN "waiting" ELSE "none"]
    /\ acceptRes = [t \in Tunnels |-> NoConn]
    /\ tunnelStats = <<1>>
    /\ fpc = [c \in Conns |-> IF c = 1 THEN "relay" ELSE "idle"]
    /\ connTunnel = [c \in Conns |-> 1]
    /\ creg = [c \in Conns |-> 0]
    /\ local = [c \in Conns |-> IF c = 1 THEN "open" ELSE "none"]
    /\ remote = [c \in Conns |-> IF c = 1 THEN "open" ELSE "none"]
    /\ connCancel = [c \in Conns |-> FALSE]
    /\ cpc = [c \in Conns |-> [d \in Dirs |-> IF c = 1 THEN "read" ELSE "off"]]
    /\ nwReg = [c \in Conns |-> [d \in Dirs |-> 0]]
    /\ ldReg = [c \in Conns |-> [d \in Dirs |-> 0]]
    /\ brkReg = [c \in Conns |-> [d \in Dirs |-> FALSE]]
    /\ connected = [c \in Conns |-> [d \in Dirs |-> TRUE]]
    /\ finishOrder = [c \in Conns |-> <<>>]
    /\ chunks = 0
    /\ acPc = [c \in Conns |-> [d \in Dirs |-> "none"]]
    /\ acElapsed = [c \in Conns |-> [d \in Dirs |-> 0]]
    /\ client = TRUE
    /\ hostLock = NoConn
    /\ sessions = 1
    /\ stats = [t \in Tunnels |-> IF t = 1 THEN [ZeroStats EXCEPT !.Connections = 1]
                                           ELSE ZeroStats]
    /\ wrote = [t \in Tunnels |-> [d \in Dirs |-> 0]]

NextHalfClose ==
    \/ \E c \in Conns, d \in Dirs : CopyRead(c, d)
    \/ \E c \in Conns, d \in Dirs : CopyLoad(c, d)
    \/ \E c \in Conns, d \in Dirs : CopyStore(c, d)
    \/ \E c \in Conns, d \in Dirs : CopySend(c, d)
    \/ \E c \in Conns, d \in Dirs : CopyFinish(c, d)
    \/ \E c \in Conns, d \in Dirs : CopyCheck(c, d)
    \/ \E c \in Conns : ForwardWait(c)
    \/ \E c \in Conns, d \in Dirs : AutoCloseTimer(c, d)
    \/ \E c \in Conns, d \in Dirs : AutoCloseCancel(c, d)
    \/ Tick

SpecHalfClose == InitHalfClose /\ [][NextHalfClose]_vars

\* Every goroutine that can take a step eventually takes it, timers are
\* delivered and time passes.  Nothing forces a stream to deliver data or an
\* end of stream: CopyRead has no fairness.
FairHalfClose ==
    /\ \A c \in Conns, d \in Dirs :
         /\ WF_vars(CopyLoad(c, d))
         /\ WF_vars(CopyStore(c, d))
         /\ WF_vars(CopySend(c, d))
         /\ WF_vars(CopyFinish(c, d))
         /\ WF_vars(CopyCheck(c, d))
         /\ WF_vars(AutoCloseTimer(c, d))
         /\ WF_vars(AutoCloseCancel(c, d))
    /\ \A c \in Conns : WF_vars(ForwardWait(c))
    /\ WF_vars(Tick)

SpecHalfCloseFair == SpecHalfClose /\ FairHalfClose

(***************************************************************************)
(* The tunnels' listeners: every Tunnel.Open from its start, the           *)
(* cancellation of the process-wide context and the broadcaster's reaction *)
(* to it.  Accepted connections are handed to forward goroutines.          *)
(***************************************************************************)
InitListen ==
    /\ InitAux
    /\ InitMain
    /\ InitConn
    /\ ctxDone = FALSE
    /\ bcPc = "select"
    /\ InitMgr(FALSE)
    /\ tpc = [t \in Tunnels |-> "created"]
    /\ listener = [t \in Tunnels |-> "none"]
    /\ boundAddr = [t \in Tunnels |-> 0]
    /\ ready = [t \in Tunnels |-> <<>>]
    /\ lcPc = [t \in Tunnels |-> "none"]
    /\ acceptRes = [t \in Tunnels |-> NoConn]
    /\ tunnelStats = <<>>

NextListen ==
    \/ \E t \in Tunnels : TunnelOpenListen(t)
    \/ \E t \in Tunnels : TunnelOpenNotify(t)
    \/ \E t \in Tunnels : ListenerCloser(t)
    \/ \E t \in Tunnels : TunnelAccept(t)
    \/ \E t \in Tunnels : TunnelAcceptSignal(t)
    \/ Cancel
    \/ BroadcasterCancel

SpecListen == InitListen /\ [][NextListen]_vars

\* Every goroutine that can take a step eventually takes it.  Nothing forces
\* the termination request: Cancel has no fairness.
FairListen ==
    /\ \A t \in Tunnels :
         /\ WF_vars(TunnelOpenListen(t))
         /\ WF_vars(TunnelOpenNotify(t))
         /\ WF_vars(ListenerCloser(t))
         /\ WF_vars(TunnelAccept(t))
         /\ WF_vars(TunnelAcceptSignal(t))
    /\ WF_vars(BroadcasterCancel)

SpecListenFair == SpecListen /\ FairListen

(***************************************************************************)
(* The stats publisher: the broadcaster, its broadcast goroutines, the     *)
(* subscribers' acceptor, and a tunnel whose counters change.              *)
(***************************************************************************)
InitStats == InitRelay

NextStats ==
    \/ StatsSignal
    \/ \E i \in 1..Len(bcTasks) : BroadcastFire(i)
    \/ \E i \in 1..Len(bcTasks) : BroadcastDone(i)
    \/ \E k \in Subs : StatsAccept(k)
    \/ \E k \in Subs : AddConnectionLock(k)
    \/ \E k \in Subs : AddConnectionBody(k)
    \/ \E k \in Subs : SubscriberGone(k)
    \/ StatsAcceptExit
    \/ Cancel
    \/ BroadcasterCancel
    \/ ClockTick

SpecStats == InitStats /\ [][NextStats]_vars

(***************************************************************************)
(* main of several ferret processes started on the same stats port.        *)
(***************************************************************************)
\* variant of StartStatsTunnel that ignores the error of net.Listen
StartStatsTunnel_IgnoreBindError(i) ==
    /\ ipc[i] = "start"
    /\ bound' = IF bound = {} THEN {i} ELSE bound
    /\ bindOk' = [bindOk EXCEPT ![i] = <<bound = {}>>]
    /\ pubAlive' = pubAlive \cup {i}
    /\ startRet' = [startRet EXCEPT ![i] = <<TRUE>>]
    /\ ipc' = [ipc EXCEPT ![i] = "returned"]
    /\ UNCHANGED <<feed, feedPeer, tunnelsOpened, icancel>>
    /\ UNCHANGED <<auxVars, procVars, mgrVars, hostVars, tunnelVars, statVars, fwdVars, copyVars, acVars>>

\* StartStatsTunnel: s.statsListener, err = net.Listen("tcp", s.statsAddress);
\* err == nil: go s.transmitStats(ctx); return true.  err != nil: receiveStats.
\* The port can be bound while no other listener is bound to it.
StartStatsTunnel(i) ==
    /\ ipc[i] = "start"
    /\ IF bound = {}
          THEN /\ bound' = {i}
               /\ bindOk' = [bindOk EXCEPT ![i] = <<TRUE>>]
               /\ pubAlive' = pubAlive \cup {i}
               /\ startRet' = [startRet EXCEPT ![i] = <<TRUE>>]
               /\ ipc' = [ipc EXCEPT ![i] = "returned"]
          ELSE /\ bindOk' = [bindOk EXCEPT ![i] = <<FALSE>>]
               /\ ipc' = [ipc EXCEPT ![i] = "receive"]
               /\ UNCHANGED <<bound, pubAlive, startRet>>
    /\ UNCHANGED <<feed, feedPeer, tunnelsOpened, icancel>>
    /\ UNCHANGED <<auxVars, procVars, mgrVars, hostVars, tunnelVars, statVars, fwdVars, copyVars, acVars>>

\* receiveStats: conn, err := net.DialTimeout(...); if err != nil { return }
ReceiveStatsDial(i) ==
    /\ ipc[i] = "receive"
    /\ IF bound # {}
          THEN /\ feed' = [feed EXCEPT ![i] = "open"]
               /\ feedPeer' = [feedPeer EXCEPT ![i] = CHOOSE j \in bound : TRUE]
               /\ ipc' = [ipc EXCEPT ![i] = "reading"]
               /\ UNCHANGED startRet
          ELSE /\ startRet' = [startRet EXCEPT ![i] = <<FALSE>>]
               /\ ipc' = [ipc EXCEPT ![i] = "returned"]
               /\ UNCHANGED <<feed, feedPeer>>
    /\ UNCHANGED <<bound, bindOk, pubAlive, tunnelsOpened, icancel>>
    /\ UNCHANGED <<auxVars, procVars, mgrVars, hostVars, tunnelVars, statVars, fwdVars, copyVars, acVars>>

\* receiveStats: n, err = conn.Read(bs); err != nil: conn.Close(); return.
\* The read fails once the publisher has closed its side or this process'
\* context is cancelled (go func() { <-ctx.Done(); conn.Close() }).
ReceiveStatsRead(i) ==
    /\ ipc[i] = "reading"
    /\ feedPeer[i] \notin pubAlive \/ i \in icancel
    /\ feed' = [feed EXCEPT ![i] = "closed"]
    /\ startRet' = [startRet EXCEPT ![i] = <<FALSE>>]
    /\ ipc' = [ipc EXCEPT ![i] = "returned"]
    /\ UNCHANGED <<bound, bindOk, pubAlive, feedPeer, tunnelsOpened, icancel>>
    /\ UNCHANGED <<auxVars, procVars, mgrVars, hostVars, tunnelVars, statVars, fwdVars, copyVars, acVars>>

\* main: if ok := stats.StartStatsTunnel(ctx); ok { startTunnels(ctx, stats) }
MainAfterStart(i) ==
    /\ ipc[i] = "returned"
    /\ IF startRet[i] = <<TRUE>>
          THEN /\ tunnelsOpened' = tunnelsOpened \cup {i}
               /\ ipc' = [ipc EXCEPT ![i] = "tunnels"]
          ELSE /\ ipc' = [ipc EXCEPT ![i] = "exited"]
               /\ UNCHANGED tunnelsOpened
    /\ UNCHANGED <<bound, bindOk, startRet, pubAlive, feed, feedPeer, icancel>>
    /\ UNCHANGED <<auxVars, procVars, mgrVars, hostVars, tunnelVars, statVars, fwdVars, copyVars, acVars>>

\* monitorShutdown: a termination signal arrives; cancel()
MainCancel(i) ==
    /\ ipc[i] # "exited"
    /\ i \notin icancel
    /\ icancel' = icancel \cup {i}
    /\ UNCHANGED <<ipc, bound, bindOk, startRet, pubAlive, feed, feedPeer, tunnelsOpened>>
    /\ UNCHANGED <<auxVars, procVars, mgrVars, hostVars, tunnelVars, statVars, fwdVars, copyVars, acVars>>

\* the publisher's statsBroadcaster sees the cancellation: closeAllConnections
\* closes the subscribers' connections and the stats listener
PublisherShutdown(i) ==
    /\ i \in icancel
    /\ i \in pubAlive
    /\ pubAlive' = pubAlive \ {i}
    /\ bound' = bound \ {i}
    /\ UNCHANGED <<ipc, bindOk, startRet, feed, feedPeer, tunnelsOpened, icancel>>
    /\ UNCHANGED <<auxVars, procVars, mgrVars, hostVars, tunnelVars, statVars, fwdVars, copyVars, acVars>>

\* terminate: os.Exit after the grace delay; the process' sockets are closed
MainExit(i) ==
    /\ i \in icancel
    /\ ipc[i] # "exited"
    /\ ipc' = [ipc EXCEPT ![i] = "exited"]
    /\ pubAlive' = pubAlive \ {i}
    /\ bound' = bound \ {i}
    /\ feed' = [feed EXCEPT ![i] = IF @ = "open" THEN "closed" ELSE @]
    /\ UNCHANGED <<bindOk, startRet, feedPeer, tunnelsOpened, icancel>>
    /\ UNCHANGED <<auxVars, procVars, mgrVars, hostVars, tunnelVars, statVars, fwdVars, copyVars, acVars>>

\* no ferret process runs yet
InitNoProcess ==
    /\ ipc = [i \in Insts |-> "start"]
    /\ bound = {}
    /\ bindOk = [i \in Insts |-> <<>>]
    /\ startRet = [i \in Insts |-> <<>>]
    /\ pubAlive = {}
    /\ feed = [i \in Insts |-> "none"]
    /\ feedPeer = [i \in Insts |-> 0]
    /\ tunnelsOpened = {}
    /\ icancel = {}

\* the state of the modelled process' runtime before main has started it
InitMainSpec ==
    /\ InitAux
    /\ InitNoProcess
    /\ InitConn
    /\ ctxDone = FALSE
    /\ bcPc = "select"
    /\ InitMgr(FALSE)
    /\ tpc = [t \in Tunnels |-> "created"]
    /\ listener = [t \in Tunnels |-> "none"]
    /\ boundAddr = [t \in Tunnels |-> 0]
    /\ ready = [t \in Tunnels |-> <<>>]
    /\ lcPc = [t \in Tunnels |-> "none"]
    /\ acceptRes = [t \in Tunnels |-> NoConn]
    /\ tunnelStats = <<>>

NextMain ==
    \/ \E i \in Insts : StartStatsTunnel(i)
    \/ \E i \in Insts : ReceiveStatsDial(i)
    \/ \E i \in Insts : ReceiveStatsRead(i)
    \/ \E i \in Insts : MainAfterStart(i)
    \/ \E i \in Insts : MainCancel(i)
    \/ \E i \in Insts : PublisherShutdown(i)
    \/ \E i \in Insts : MainExit(i)

SpecMain == InitMainSpec /\ [][NextMain]_vars

\* the publisher of InitRelay, about to pad one payload
InitPad ==
    /\ InitMain
    /\ InitConn
    /\ ctxDone = FALSE
    /\ bcPc = "select"
    /\ InitMgr(FALSE)
    /\ tpc = [t \in Tunnels |-> IF t = 1 THEN "accept" ELSE "created"]
    /\ listener = [t \in Tunnels |-> IF t = 1 THEN "open" ELSE "none"]
    /\ boundAddr = [t \in Tunnels |-> IF t = 1 THEN LocalAddr(t) ELSE 0]
    /\ ready = [t \in Tunnels |-> IF t = 1 THEN <<TRUE>> ELSE <<>>]
    /\ lcPc = [t \in Tunnels |-> IF t = 1 THEN "waiting" ELSE "none"]
    /\ acceptRes = [t \in Tunnels |-> NoConn]
    /\ tunnelStats = <<1>>
    /\ InitCfgIdle
    /\ InitAddrIdle
    /\ procExit = <<>>
    /\ payload \in {PayloadOf(L) : L \in 0..MaxPayload}
    /\ frame = <<>>
    /\ fsent = <<>>
    /\ wire = <<>>
    /\ bs = [i \in 1..BufSize |-> 0]
    /\ str = <<>>
    /\ parsed = <<>>
    /\ shortReads = 0
    /\ badSent = <<>>
    /\ rsPc = "reading"

NextPad == WriteUpdatePad

SpecPad == InitPad /\ [][NextPad]_vars

NextFrame ==
    \/ \E rec \in FrameRecords : FramePublish(rec)
    \/ \E n \in 1..BufSize : ReceiveStatsFrame(n)

\* a publisher and one subscriber whose feed connection is open
SpecFrame == InitRelay /\ [][NextFrame]_vars

\* the subscriber's feed when the peer also writes frames that do not parse,
\* until the connection ends
NextFrameErr ==
    \/ \E rec \in FrameRecords : FramePublish(rec)
    \/ FramePublishBad
    \/ \E n \in 1..BufSize : ReceiveStatsFrame(n)
    \/ ReceiveStatsError

SpecFrameErr == InitRelay /\ [][NextFrameErr]_vars

\* A subscriber registered first; then tunnel 1 accepted two connections
\* (the first accept's signal started the broadcast goroutine), and both
\* forward tasks opened the Host, dialled and started their copy goroutines.
InitFeed ==
    /\ InitAux
    /\ InitMain
    /\ ctxDone = FALSE
    /\ bcPc = "select"
    /\ now = 0
    /\ updated = TRUE
    /\ bcTasks = <<[deadline |-> SettleDelay, phase |-> "timer"]>>
    /\ lastBroadcast = 0 - Interval
    /\ statsListener = "open"
    /\ statsLock = NoSub
    /\ connections = <<1>>
    /\ lastUpdate = <<>>
    /\ subPc = [k \in Subs |-> IF k = 1 THEN "added" ELSE "none"]
    /\ subConn = [k \in Subs |-> IF k = 1 THEN "open" ELSE "none"]
    /\ rx = [k \in Subs |-> <<>>]
    /\ emits = <<>>
    /\ tsPc = "accept"
    /\ owed = SettleDelay
    /\ tpc = [t \in Tunnels |-> IF t = 1 THEN "accept" ELSE "created"]
    /\ listener = [t \in Tunnels |-> IF t = 1 THEN "open" ELSE "none"]
    /\ boundAddr = [t \in Tunnels |-> IF t = 1 THEN LocalAddr(t) ELSE 0]
    /\ ready = [t \in Tunnels |-> IF t = 1 THEN <<TRUE>> ELSE <<>>]
    /\ lcPc = [t \in Tunnels |-> IF t = 1 THEN "waiting" ELSE "none"]
    /\ acceptRes = [t \in Tunnels |-> NoConn]
    /\ tunnelStats = <<1>>
    /\ fpc = [c \in Conns |-> IF c <= 2 THEN "relay" ELSE "idle"]
    /\ connTunnel = [c \in Conns |-> 1]
    /\ creg = [c \in Conns |-> 0]
    /\ local = [c \in Conns |-> IF c <= 2 THEN "open" ELSE "none"]
    /\ remote = [c \in Conns |-> IF c <= 2 THEN "open" ELSE "none"]
    /\ connCancel = [c \in Conns |-> FALSE]
    /\ cpc = [c \in Conns |-> [d \in Dirs |-> IF c <= 2 THEN "read" ELSE "off"]]
    /\ nwReg = [c \in Conns |-> [d \in Dirs |-> 0]]
    /\ ldReg = [c \in Conns |-> [d \in Dirs |-> 0]]
    /\ brkReg = [c \in Conns |-> [d \in Dirs |-> FALSE]]
    /\ connected = [c \in Conns |-> [d \in Dirs |-> TRUE]]
    /\ finishOrder = [c \in Conns |-> <<>>]
    /\ chunks = 0
    /\ acPc = [c \in Conns |-> [d \in Dirs |-> "none"]]
    /\ acElapsed = [c \in Conns |-> [d \in Dirs |-> 0]]
    /\ client = TRUE
    /\ hostLock = NoConn
    /\ sessions = 1
    /\ stats = [t \in Tunnels |-> IF t = 1 THEN [ZeroStats EXCEPT !.Connections = 2]
                                           ELSE ZeroStats]
    /\ wrote = [t \in Tunnels |-> [d \in Dirs |-> 0]]

NextFeed ==
    \/ \E c \in Conns, d \in Dirs : CopyRead(c, d)
    \/ \E c \in Conns, d \in Dirs : CopyLoad(c, d)
    \/ \E c \in Conns, d \in Dirs : CopyStore(c, d)
    \/ \E c \in Conns, d \in Dirs : CopySend(c, d)
    \/ \E i \in 1..Len(bcTasks) : BroadcastFire(i)
    \/ \E i \in 1..Len(bcTasks) : BroadcastDone(i)
    \/ ClockTick

SpecFeed == InitFeed /\ [][NextFeed]_vars

\* main has parsed its command line and Configuration.Load has returned the
\* configuration; nothing is validated, no goroutine runs
InitConfig ==
    /\ InitFrameIdle
    /\ InitAddrIdle
    /\ procExit = <<>>
    /\ InitNoProcess
    /\ InitConn
    /\ ctxDone = FALSE
    /\ bcPc = "select"
    /\ InitMgr(FALSE)
    /\ tpc = [t \in Tunnels |-> "created"]
    /\ listener = [t \in Tunnels |-> "none"]
    /\ boundAddr = [t \in Tunnels |-> 0]
    /\ ready = [t \in Tunnels |-> <<>>]
    /\ lcPc = [t \in Tunnels |-> "none"]
    /\ acceptRes = [t \in Tunnels |-> NoConn]
    /\ tunnelStats = <<>>
    /\ cfg \in Configurations
    /\ cfgPc = "loaded"
    /\ hobj = <<>>
    /\ hostReg = {}
    /\ tunnelReg = {}
    /\ cfgValid = <<>>
    /\ vjValid = <<>>
    /\ hostRes = <<>>
    /\ checkFailed = FALSE
    /\ synthBuilt = {}
    /\ opened = {}
    /\ dialed = {}

NextConfig ==
    \/ LoadConfiguration
    \/ \E tn \in tunnelReg : TunnelRelay(tn)

SpecConfig == InitConfig /\ [][NextConfig]_vars

\* the configuration was unmarshalled: an Address holds its text, a Tunnel
\* its forward and local addresses, either of which the file may omit
InitAddress ==
    /\ InitFrameIdle
    /\ InitCfgIdle
    /\ procExit = <<>>
    /\ InitNoProcess
    /\ InitConn
    /\ ctxDone = FALSE
    /\ bcPc = "select"
    /\ InitMgr(FALSE)
    /\ tpc = [t \in Tunnels |-> "created"]
    /\ listener = [t \in Tunnels |-> "none"]
    /\ boundAddr = [t \in Tunnels |-> 0]
    /\ ready = [t \in Tunnels |-> <<>>]
    /\ lcPc = [t \in Tunnels |-> "none"]
    /\ acceptRes = [t \in Tunnels |-> NoConn]
    /\ tunnelStats = <<>>
    /\ addr \in {NewAddress(text) : text \in AddressTexts}
    /\ addrRemote \in BOOLEAN
    /\ addrPc = "new"
    /\ tunForward \in {<<>>} \cup {<<NewAddress(text)>> : text \in AddressTexts}
    /\ tunLocal \in {<<>>, <<NewAddress(<<"">>)>>, <<NewAddress(<<"10.0.0.1", "22">>)>>}
    /\ tunLocalGiven = (tunLocal # <<>> /\ ~IsBlank(tunLocal[1]))
    /\ tunPc = "new"

NextAddress ==
    \/ AddressValidate
    \/ TunnelValidateAddresses

SpecAddress == InitAddress /\ [][NextAddress]_vars

(***************************************************************************)
(* The end of the process: main returns when startTunnels' wg.Wait()       *)
(* returns, and terminate(code) calls os.Exit(code) one second after it    *)
(* was called; nothing else orders os.Exit with the other goroutines.      *)
(***************************************************************************)
\* main: startTunnels(ctx, stats) returns once every Tunnel.Open has
\* returned; main returns and the process exits with status 0
MainReturn ==
    /\ procExit = <<>>
    /\ \A t \in Tunnels : tpc[t] = "returned"
    /\ procExit' = <<0>>
    /\ UNCHANGED <<frameVars, cfgVars, addrVars, mainVars, procVars, mgrVars, hostVars, tunnelVars, statVars, fwdVars, copyVars, acVars>>

\* variant of TerminateExit in which forward calls terminate(1) where it
\* abandons a connection
TerminateExit_OnAbandon ==
    /\ procExit = <<>>
    /\ ctxDone \/ (\E t \in Tunnels : ready[t] = <<FALSE>>) \/ (\E c \in Conns : fpc[c] = "abandoned")
    /\ procExit' = <<1>>
    /\ UNCHANGED <<frameVars, cfgVars, addrVars, mainVars, procVars, mgrVars, hostVars, tunnelVars, statVars, fwdVars, copyVars, acVars>>

\* terminate(1), called by monitorShutdown's goroutine after cancel() or by
\* monitorForFailureToConnect after a false readiness value:
\* <-time.NewTimer(time.Second).C; os.Exit(1)
TerminateExit ==
    /\ procExit = <<>>
    /\ ctxDone \/ \E t \in Tunnels : ready[t] = <<FALSE>>
    /\ procExit' = <<1>>
    /\ UNCHANGED <<frameVars, cfgVars, addrVars, mainVars, procVars, mgrVars, hostVars, tunnelVars, statVars, fwdVars, copyVars, acVars>>

\* the process' goroutines run until the process has exited
NextShutdown ==
    \/ procExit = <<>> /\ \E t \in Tunnels : TunnelOpenListen(t)
    \/ procExit = <<>> /\ \E t \in Tunnels : TunnelOpenNotify(t)
    \/ procExit = <<>> /\ \E t \in Tunnels : ListenerCloser(t)
    \/ procExit = <<>> /\ \E t \in Tunnels : TunnelAccept(t)
    \/ procExit = <<>> /\ \E t \in Tunnels : TunnelAcceptSignal(t)
    \/ procExit = <<>> /\ Cancel
    \/ procExit = <<>> /\ BroadcasterCancel
    \/ MainReturn
    \/ TerminateExit

SpecShutdown == InitListen /\ [][NextShutdown]_vars

(***************************************************************************)
(* The relay with the stats service enabled or disabled.  With stats port  *)
(* -1 StartStatsTunnel makes no update channel and starts no broadcaster:  *)
(* UpdateChannel() is nil, and a send on a nil channel never completes.    *)
(***************************************************************************)
\* the StatsManager after StartStatsTunnel with statsPort = -1: no listener,
\* no acceptor, no broadcaster, s.updateChan nil
InitMgrDisabled ==
    /\ now = 0
    /\ updated = FALSE
    /\ bcTasks = <<>>
    /\ lastBroadcast = 0 - Interval
    /\ statsListener = "none"
    /\ statsLock = NoSub
    /\ connections = <<>>
    /\ lastUpdate = <<>>
    /\ subPc = [k \in Subs |-> "none"]
    /\ subConn = [k \in Subs |-> "none"]
    /\ rx = [k \in Subs |-> <<>>]
    /\ emits = <<>>
    /\ tsPc = "none"
    /\ owed = NoTime

\* statsPort = -1: nothing receives from the update channel
StatsDisabled == bcPc = "none"

\* StartStatsTunnel returned true, with the stats service enabled or
\* disabled, and tunnel 1 is in its accept loop
InitSink ==
    /\ InitAux
    /\ InitMain
    /\ InitConn
    /\ ctxDone = FALSE
    /\ \/ bcPc = "select" /\ InitMgr(FALSE)
       \/ bcPc = "none" /\ InitMgrDisabled
    /\ tpc = [t \in Tunnels |-> IF t = 1 THEN "accept" ELSE "created"]
    /\ listener = [t \in Tunnels |-> IF t = 1 THEN "open" ELSE "none"]
    /\ boundAddr = [t \in Tunnels |-> IF t = 1 THEN LocalAddr(t) ELSE 0]
    /\ ready = [t \in Tunnels |-> IF t = 1 THEN <<TRUE>> ELSE <<>>]
    /\ lcPc = [t \in Tunnels |-> IF t = 1 THEN "waiting" ELSE "none"]
    /\ acceptRes = [t \in Tunnels |-> NoConn]
    /\ tunnelStats = <<1>>

SpecSink == InitSink /\ [][NextHost]_vars

(***************************************************************************)
(* The relay inside the process: tunnel 1 accepts and relays connections   *)
(* while the termination request may arrive and the process may exit.      *)
(***************************************************************************)
NextIsolation ==
    \/ procExit = <<>> /\ \E t \in Tunnels : TunnelAccept(t)
    \/ procExit = <<>> /\ \E t \in Tunnels : TunnelAcceptSignal(t)
    \/ procExit = <<>> /\ \E t \in Tunnels : ListenerCloser(t)
    \/ procExit = <<>> /\ \E c \in Conns : ForwardIncLoad(c)
    \/ procExit = <<>> /\ \E c \in Conns : ForwardIncStore(c)
    \/ procExit = <<>> /\ \E c \in Conns : HostOpenLock(c)
    \/ procExit = <<>> /\ \E c \in Conns : HostOpenBody(c)
    \/ procExit = <<>> /\ \E c \in Conns : HostDialLock(c)
    \/ procExit = <<>> /\ \E c \in Conns : HostDialBody(c)
    \/ procExit = <<>> /\ \E c \in Conns, d \in Dirs : CopyRead(c, d)
    \/ procExit = <<>> /\ \E c \in Conns, d \in Dirs : CopyLoad(c, d)
    \/ procExit = <<>> /\ \E c \in Conns, d \in Dirs : CopyStore(c, d)
    \/ procExit = <<>> /\ \E c \in Conns, d \in Dirs : CopySend(c, d)
    \/ procExit = <<>> /\ \E c \in Conns, d \in Dirs : CopyFinish(c, d)
    \/ procExit = <<>> /\ \E c \in Conns, d \in Dirs : CopyCheck(c, d)
    \/ procExit = <<>> /\ \E c \in Conns : ForwardWait(c)
    \/ procExit = <<>> /\ \E c \in Conns, d \in Dirs : AutoCloseTimer(c, d)
    \/ procExit = <<>> /\ \E c \in Conns, d \in Dirs : AutoCloseCancel(c, d)
    \/ procExit = <<>> /\ Tick
    \/ procExit = <<>> /\ Cancel
    \/ TerminateExit

SpecIsolation == InitRelay /\ [][NextIsolation]_vars

(***************************************************************************)
(* Claims                                                                  *)
(***************************************************************************)
Opening == {c \in Conns : fpc[c] = "opening"}

\* C1: over all interleavings of forward tasks calling Host.Open on the same
\* Host, the session is established at most once, no two Open calls are
\* inside the lock (dialling) at the same time, and an Open that finds the
\* session present returns true without dialling.
C1_SessionEstablishedOnce ==
    /\ [](sessions <= 1 /\ Cardinality(Opening) <= 1)
    /\ [][\A c \in Conns :
            (client /\ fpc[c] = "opening" /\ fpc'[c] # "opening")
               => (fpc'[c] = "dial" /\ sessions' = sessions /\ client')]_vars

\* C1 witness: every forward task returned from Open with true, and the
\* session was dialled once.
C1_Witness ==
    /\ sessions = 1
    /\ \A c \in Conns : fpc[c] \in {"dial", "dialing", "relay"}

Running(c, d) == cpc[c][d] \in {"read", "load", "store", "send"}
HalfClosed(c) == \E d \in Dirs : ~connected[c][d] /\ Running(c, Other(d))
BothTerminated(c) == \A d \in Dirs : ~connected[c][d]
TimerFired(c) == \E d \in Dirs : acPc[c][d] = "triggered"
StreamsClosed(c) == local[c] = "closed" /\ remote[c] = "closed"
StreamsOpen(c) == local[c] = "open" /\ remote[c] = "open"

C3_CountersMonotone ==
    /\ [][\A t \in Tunnels :
            /\ stats'[t].Received >= stats[t].Received
            /\ stats'[t].Transmitted >= stats[t].Transmitted]_vars
    /\ [](\A t \in Tunnels :
            /\ stats[t].Received <= wrote[t][1]
            /\ stats[t].Transmitted <= wrote[t][2])

Accepted(t) == {c \in Conns : local[c] # "none" /\ connTunnel[c] = t}
Incremented(c) == fpc[c] \notin {"idle", "inc_load", "inc_store"}

\* C4: when every connection a tunnel has accepted has executed its
\* increment, Connections equals the number of accepted connections.
C4_ConnectionsCount ==
    \A t \in Tunnels :
        (\A c \in Accepted(t) : Incremented(c))
            => stats[t].Connections = Cardinality(Accepted(t))

\* C5: Tunnel.Open sends exactly one value on the readiness channel and none
\* before the bind; false is sent when the bind failed, and then Open has
\* returned without a listener and without ever accepting; true is sent when
\* the bind succeeded, before the first accept, and the listener is bound to
\* the tunnel's local address.
C5_ReadinessSignal ==
    \A t \in Tunnels :
        /\ Len(ready[t]) <= 1
        /\ tpc[t] \in {"created", "notify"} <=> ready[t] = <<>>
        /\ ready[t] = <<FALSE>>
              => (tpc[t] = "returned" /\ listener[t] = "none" /\ Accepted(t) = {}
                  /\ lcPc[t] = "none")
        /\ ready[t] = <<TRUE>>
              => (listener[t] # "none" /\ boundAddr[t] = LocalAddr(t))
        /\ (Accepted(t) # {} \/ tpc[t] \in {"accept", "signal"}) => ready[t] = <<TRUE>>

\* C5 witness: one tunnel failed to bind and reported false, another one
\* reported true and has accepted a connection.
C5_Witness ==
    \E t1, t2 \in Tunnels :
        /\ ready[t1] = <<FALSE>> /\ tpc[t1] = "returned"
        /\ ready[t2] = <<TRUE>> /\ Accepted(t2) # {}

\* C6: once the context is cancelled, every tunnel that is in its accept loop
\* eventually has its listener closed and Tunnel.Open returned.
C6_CancelStopsTunnels ==
    \A t \in Tunnels :
        (ctxDone /\ tpc[t] \in {"accept", "signal"})
            ~> (listener[t] = "closed" /\ tpc[t] = "returned")

Publisher(i) == startRet[i] = <<TRUE>> /\ i \in pubAlive

\* C7: StartStatsTunnel returns true exactly when the bind of the stats port
\* succeeded, and only such a process starts its tunnels; a process whose bind
\* failed has returned false only with its feed connection ended, and never
\* starts a tunnel; at most one process is the publisher at any time.
C7_PublisherOrSubscriber ==
    /\ \A i \in Insts :
         /\ startRet[i] = <<TRUE>> <=> bindOk[i] = <<TRUE>>
         /\ i \in tunnelsOpened => startRet[i] = <<TRUE>>
         /\ ipc[i] = "tunnels" => startRet[i] = <<TRUE>>
         /\ bindOk[i] = <<FALSE>> => (i \notin tunnelsOpened /\ i \notin pubAlive)
         /\ startRet[i] = <<FALSE>> => (bindOk[i] = <<FALSE>> /\ feed[i] # "open")
    /\ Cardinality({i \in Insts : Publisher(i)}) <= 1

\* C7 witness: a publisher that started its tunnels, and a subscriber whose
\* feed ended and which returned false.
C7_Witness ==
    \E i, j \in Insts :
        /\ startRet[i] = <<TRUE>> /\ i \in tunnelsOpened
        /\ startRet[j] = <<FALSE>> /\ feed[j] = "closed" /\ ipc[j] = "exited"

\* C8: two consecutive broadcasts are at least the interval apart.
C8_RateLimit ==
    \A n \in 1..(Len(emits) - 1) : emits[n + 1] - emits[n] >= Interval

\* C8 witness: a second broadcast exactly one interval after the first.
C8_Witness == Len(emits) >= 2 /\ emits[2] - emits[1] = Interval

\* C9: a signal received while a subscriber is attached, no broadcast is
\* pending and the previous broadcast is at least an interval old is answered
\* by a broadcast within the settle delay of one second.
C9_IdleLatency == owed = NoTime \/ now <= owed

\* C10: nothing is written to a subscriber connection before its
\* registration; the registration writes the last snapshot, when there is
\* one, as the first thing on the connection and before the connection is in
\* s.connections, and writes nothing when there is none; a snapshot is never
\* written after a broadcast frame.
C10_SnapshotOnRegistration ==
    /\ [](\A k \in Subs :
            /\ subPc[k] # "added" => (rx[k] = <<>> /\ ~InSeq(connections, k))
            /\ \A n \in 1..Len(rx[k]) : rx[k][n].kind = "snapshot" => n = 1)
    /\ [][\A k \in Subs :
            (subPc[k] = "adding" /\ subPc'[k] = "added")
               => /\ ~InSeq(connections, k) /\ InSeq(connections', k)
                  /\ rx'[k] = IF Len(lastUpdate) > 0 /\ subConn[k] = "open"
                                 THEN <<[kind |-> "snapshot", frame |-> lastUpdate[1]]>>
                                 ELSE <<>>]_vars

\* C10 witness: a subscriber that got the snapshot at its registration and a
\* broadcast frame after it, and one that registered before any snapshot.
C10_Witness ==
    \E k, j \in Subs :
        /\ Len(rx[k]) >= 2 /\ rx[k][1].kind = "snapshot" /\ rx[k][2].kind = "broadcast"
        /\ Len(rx[j]) >= 1 /\ rx[j][1].kind = "broadcast"

\* the successfully parsed records are the records sent, in order
IsPrefix(a, b) == Len(a) <= Len(b) /\ SubSeq(b, 1, Len(a)) = a

\* C11: however the transport splits the frame bytes across the subscriber's
\* reads, the records the subscriber parses are the records the publisher
\* serialized, one per frame and in order: what is parsed is always a prefix
\* of what was sent, and once every byte has been read, all of it.
C11_FramingRoundTrip ==
    /\ IsPrefix(parsed, fsent)
    /\ wire = <<>> => parsed = fsent

\* C12: the frame is the payload followed only by zero bytes, and its length
\* is the smallest multiple of 256 strictly greater than the payload's length.
C12_FramePadding ==
    frame # <<>> =>
        LET L == Len(payload)
            F == Len(frame[1])
        IN /\ SubSeq(frame[1], 1, L) = payload
           /\ \A i \in (L + 1)..F : frame[1][i] = 0
           /\ F % FrameSize = 0
           /\ F > L
           /\ F - FrameSize <= L
           /\ frame[1][F] = 0

\* C12 witness: a payload that ends on the boundary got a whole block of
\* padding.
C12_Witness ==
    frame # <<>> /\ Len(payload) = FrameSize /\ Len(frame[1]) = 2 * FrameSize

\* C13: a broadcast leaves in the live set exactly the registered subscribers
\* whose write succeeded, in their original order, and writes the frame to
\* every registered subscriber whose connection takes it, whatever happened to
\* the writes before it.
C13_PruneDeadSubscribers ==
    [][emits' # emits =>
          /\ connections' = SelectSeq(connections, LAMBDA k : subConn[k] = "open")
          /\ \A k \in Subs :
               rx'[k] = IF InSeq(connections, k) /\ subConn[k] = "open"
                           THEN Append(rx[k], [kind |-> "broadcast", frame |-> lastUpdate'[1]])
                           ELSE rx[k]]_vars

\* C13 witness: subscriber 1 registered first and its connection broke; the
\* first broadcast reached subscriber 2 and left it alone in the live set.
C13_Witness ==
    /\ emits # <<>>
    /\ subPc[1] = "added" /\ subConn[1] = "broken" /\ rx[1] = <<>>
    /\ connections = <<2>>
    /\ rx[2] # <<>> /\ rx[2][1].kind = "broadcast"

\* C14: on every subscriber connection each frame carries, for every tunnel
\* of the frame before it, connections, received and transmitted values that
\* are not smaller, and every frame holds one entry per registered
\* TunnelStats.
C14_FramesMonotone ==
    \A k \in Subs :
        /\ \A n \in 1..Len(rx[k]) : Len(rx[k][n].frame) <= Len(tunnelStats)
        /\ \A n \in 1..(Len(rx[k]) - 1) :
             /\ Len(rx[k][n].frame) <= Len(rx[k][n + 1].frame)
             /\ \A i \in 1..Len(rx[k][n].frame) :
                  /\ rx[k][n].frame[i].Connections <= rx[k][n + 1].frame[i].Connections
                  /\ rx[k][n].frame[i].Received <= rx[k][n + 1].frame[i].Received
                  /\ rx[k][n].frame[i].Transmitted <= rx[k][n + 1].frame[i].Transmitted

\* the hosts of the registry that are a tunnel's target and name a jump host
JumpedTargets == {e \in hostReg : cfg.hosts[e.idx].jump # Blank /\ hobj[e.idx].isHost}

\* C15: when validateJumpHosts returns true, every host h that is a tunnel
\* target and names a jump host J has a tunnel "<J> jumphost" in Tunnels with
\* Host = J, Forward = h's original address and Local = a loopback address,
\* and h.Address is that Local; this covers several hosts sharing one J
C15_JumpTunnelPerHost ==
    vjValid = <<TRUE>> =>
        \A e \in JumpedTargets :
            \E t \in tunnelReg :
                /\ t.name = JumpTunnelName(cfg.hosts[e.idx].jump)
                /\ t.host = cfg.hosts[e.idx].jump
                /\ t.forward = OrigAddr(e.idx)
                /\ t.local \in {Loopback(p) : p \in Ports}
                /\ hobj[e.idx].addr = t.local

\* C16: a host's address is rewritten only while the configuration is
\* validated, before any tunnel is opened; afterwards every dial of a host
\* that names a jump host goes to the loopback address of the synthetic
\* tunnel built for it and never to the address the host was configured with
C16_DialTargetsLoopback ==
    /\ [](\A d \in dialed :
            cfg.hosts[d.idx].jump # Blank =>
                /\ d.addr # OrigAddr(d.idx)
                /\ \E sb \in synthBuilt : sb.for = d.idx /\ sb.local = d.addr
                /\ d.addr \in {Loopback(p) : p \in Ports})
    /\ [][hobj' # hobj => (opened = {} /\ opened' = {} /\ dialed' = {})]_vars

C16_Witness ==
    \E d \in dialed : cfg.hosts[d.idx].jump # Blank /\ d.addr # OrigAddr(d.idx)

\* C17: Configuration.Validate returns false whenever some host names a jump
\* host that itself names a jump host, whether or not a tunnel targets it
C17_MultiHopRejected ==
    cfgValid # <<>> =>
        \A i, k \in 1..Len(cfg.hosts) :
            (/\ cfg.hosts[i].jump # Blank
             /\ cfg.hosts[k].name = cfg.hosts[i].jump
             /\ cfg.hosts[k].jump # Blank)
            => cfgValid = <<FALSE>>

\* the hosts whose jump_host is their own name
SelfJumping == {i \in 1..Len(cfg.hosts) :
                   cfg.hosts[i].jump # Blank /\ cfg.hosts[i].jump = cfg.hosts[i].name}

\* C18: Host.Validate returns false for a host whose jump_host is its own
\* name, Configuration.Validate then returns false, the process terminates
\* and no tunnel is started
C18_SelfJumpRejected ==
    (cfgValid # <<>> /\ SelfJumping # {}) =>
        /\ \A i \in SelfJumping : hostRes[i] = FALSE
        /\ cfgValid = <<FALSE>>
        /\ cfgPc = "terminated"
        /\ opened = {}
        /\ dialed = {}

C18_Witness ==
    /\ cfgPc = "terminated"
    /\ SelfJumping # {}
    /\ \A i \in 1..Len(cfg.hosts) : i \notin SelfJumping => hostRes[i] = TRUE

\* C19: after Configuration.Validate has returned true, Hosts holds exactly
\* the configured hosts that are the target of a tunnel, a synthetic one
\* included, or that some host names as its jump host
C19_RegistryExactlyUsed ==
    cfgValid = <<TRUE>> =>
        {e.name : e \in hostReg} =
            {cfg.hosts[i].name : i \in 1..Len(cfg.hosts)} \cap
                ({cfg.tunnels[t].host : t \in 1..Len(cfg.tunnels)}
                 \cup {sb.host : sb \in synthBuilt}
                 \cup {cfg.hosts[i].jump : i \in 1..Len(cfg.hosts)})

\* C20: Configuration.Validate runs Host.Validate on every host whatever the
\* earlier results, returns false exactly when one of the checks it made
\* reported an error, and a configuration for which it returns false never
\* has a tunnel started
C20_ValidateAllFalseIffFailed ==
    cfgValid # <<>> =>
        /\ Len(hostRes) = Len(cfg.hosts)
        /\ cfgValid = <<FALSE>> <=> checkFailed
        /\ cfgValid = <<FALSE>> => (cfgPc = "terminated" /\ opened = {})

\* C21: for a tunnel whose local address is omitted and whose forward address
\* is valid, Tunnel.Validate leaves 0.0.0.0:<forward's port> as the local
\* address
C21_DefaultLocal ==
    (tunPc = "validated" /\ ~tunLocalGiven /\ tunForward # <<>> /\ tunForward[1].valid) =>
        /\ tunLocal # <<>>
        /\ tunLocal[1].address = <<"0.0.0.0", Itoa(tunForward[1].port)>>

\* C22: an address whose validation left valid = true holds exactly one host
\* part, one ':' and one port, and the port is between 1 and 65535
C22_ValidAddressShape ==
    (addrPc = "validated" /\ addr.valid) =>
        /\ Len(addr.address) = 2
        /\ addr.port \in 1..65535
        /\ addr.address[2] = Itoa(addr.port)

\* C23: after a termination request the process exits only when no tunnel
\* listener is open any more, and with a status that is not zero
C23_ExitAfterListenersClosed ==
    (ctxDone /\ procExit # <<>>) =>
        /\ \A t \in Tunnels : listener[t] # "open"
        /\ procExit[1] # 0

\* C24: a frame whose payload does not parse is dropped and the subscriber
\* goes on reading with an empty buffer: when the first frame written was
\* malformed and everything written has been read, the buffer is empty and
\* the records rendered are the well-formed records written after it
C24_MalformedDiscarded ==
    (badSent = <<0>> /\ wire = <<>>) => (parsed = fsent /\ str = <<>>)

\* nothing of connection c can act any more: forward has returned and no
\* auto-closer of the connection is waiting
Quiescent(c) == fpc[c] = "done" /\ \A d \in Dirs : acPc[c][d] # "waiting"

\* C25: whatever the order in which the two copy tasks of a connection
\* terminate, the local and the remote stream end up closed: once both tasks
\* have terminated and nothing of the connection is left to run, both streams
\* are closed
C25_BothStreamsClosed ==
    \A c \in Conns : (BothTerminated(c) /\ Quiescent(c)) => StreamsClosed(c)

\* C26: the per-connection cancellation is raised only after both copy tasks
\* have finished; an auto-closer that is waiting when it is raised can close
\* at once, whatever its timer shows; an auto-closer that ended on the
\* cancellation has closed both streams; and once both copy tasks have
\* terminated, a waiting auto-closer's streams are eventually closed
C26_CancelShortCircuits ==
    /\ [](\A c \in Conns :
            /\ connCancel[c] => \A d \in Dirs : cpc[c][d] = "done"
            /\ \A d \in Dirs :
                 /\ (acPc[c][d] = "waiting" /\ connCancel[c]) => ENABLED AutoCloseCancel(c, d)
                 /\ acPc[c][d] = "terminated" => (connCancel[c] /\ StreamsClosed(c)))
    /\ \A c \in Conns, d \in Dirs :
         (acPc[c][d] = "waiting" /\ BothTerminated(c)) ~> StreamsClosed(c)

\* C26 witness: an auto-closer ended on the cancellation before any of its
\* 30 seconds had passed, and both streams are closed
C26_Witness ==
    \E c \in Conns, d \in Dirs :
        /\ acPc[c][d] = "terminated"
        /\ acElapsed[c][d] < AutoCloseGrace
        /\ StreamsClosed(c)

\* C27: at most one broadcast task is pending, and the updated flag is true
\* only while a broadcast task is pending, so that a signal is ignored only
\* when a broadcast is still to come
C27_UpdatedMeansPending ==
    /\ Len(bcTasks) <= 1
    /\ updated => Len(bcTasks) = 1

\* C28: a broadcast whose timer fires becomes the stored last snapshot and is
\* written to every live subscriber, also while a registration holds the lock
C28_FiredBroadcastWritten ==
    [][(\E i \in 1..Len(bcTasks) :
           /\ bcTasks[i].phase = "timer"
           /\ Len(bcTasks') = Len(bcTasks)
           /\ bcTasks'[i].phase = "written")
         => /\ lastUpdate' = <<Marshal>>
            /\ \A k \in Subs :
                 (InSeq(connections, k) /\ subConn[k] = "open")
                    => rx'[k] = Append(rx[k], [kind |-> "broadcast", frame |-> Marshal])]_vars

Abandoned(c) == fpc[c] = "abandoned"
Traffic(t) == <<stats[t].Received, stats[t].Transmitted>>

\* C29: a forward task is at Host.Dial only after Host.Open returned true, so
\* with the session present; a connection whose Open or Dial returned false
\* is abandoned: it has no copy task and no remote stream, the step that
\* abandons it leaves the received and transmitted counters alone, and it
\* never calls Open or Dial again
C29_DialOnlyAfterOpen ==
    /\ [](\A c \in Conns :
            /\ fpc[c] \in {"dial", "dialing"} => client
            /\ Abandoned(c) => (remote[c] = "none" /\ \A d \in Dirs : cpc[c][d] = "off"))
    /\ [][\A c \in Conns :
            /\ (fpc'[c] = "dial" /\ fpc[c] # "dial") => (fpc[c] = "opening" /\ client')
            /\ (fpc'[c] = "dialing" /\ fpc[c] # "dialing") => fpc[c] = "dial"
            /\ (Abandoned(c)' /\ ~Abandoned(c))
                  => /\ fpc[c] \in {"opening", "dialing"}
                     /\ \A t \in Tunnels : Traffic(t)' = Traffic(t)
            /\ Abandoned(c) => Abandoned(c)']_vars

\* C29 witness: one connection was abandoned while another one is relayed
\* and has moved a counter
C29_Witness ==
    \E c, e \in Conns :
        /\ Abandoned(c)
        /\ fpc[e] = "relay"
        /\ \E t \in Tunnels : Traffic(t) # <<0, 0>>

Listening(t) == tpc[t] \in {"accept", "signal"} /\ listener[t] = "open"

\* connection c has failed: Open or Dial returned false, or a copy direction
\* has ended
Failed(c) == Abandoned(c) \/ \E d \in Dirs : ~connected[c][d]

\* the step in which connection c fails: its attempt is abandoned, or one of
\* its copy directions leaves its loop
Failing(c) ==
    \/ Abandoned(c)' /\ ~Abandoned(c)
    \/ \E d \in Dirs : cpc'[c][d] = "finish" /\ cpc[c][d] # "finish"

\* C30: a failure inside a connection (Open, Dial, or a copy direction ending
\* on an error) changes nothing of its tunnel, of the other connections'
\* copy tasks and streams, or of the process; as long as no termination was
\* requested the tunnel of a failed connection is listening and accepts the
\* next connection; and the process exits only on a termination request
C30_FailureIsolated ==
    /\ [](\A c \in Conns :
            (Failed(c) /\ ~ctxDone) =>
                LET t == connTunnel[c]
                IN /\ Listening(t)
                   /\ (tpc[t] = "accept" /\ IdleConns # {}) => ENABLED TunnelAccept(t))
    /\ [](procExit # <<>> => ctxDone)
    /\ [][\A c \in Conns :
            Failing(c) =>
                /\ tunnelVars' = tunnelVars
                /\ procExit' = procExit
                /\ \A e \in Conns \ {c} :
                     /\ cpc'[e] = cpc[e] /\ connected'[e] = connected[e]
                     /\ fpc'[e] = fpc[e]
                     /\ local'[e] = local[e] /\ remote'[e] = remote[e]]_vars

\* C30 witness: connection 1 was abandoned; its tunnel is still accepting
\* and connection 2, accepted after it, is relaying data
C30_Witness ==
    /\ Abandoned(1)
    /\ ~ctxDone /\ procExit = <<>>
    /\ Listening(1)
    /\ fpc[2] = "relay" /\ cpc[2][1] = "send"

\* the publisher's shutdown has run to its end: the broadcaster and the
\* acceptor have returned and no registration is under way
PublisherStopped ==
    /\ bcPc = "exited"
    /\ tsPc = "exited"
    /\ \A k \in Subs : subPc[k] \in {"none", "added"}

\* C31: after the cancellation the stats listener is closed, the acceptor
\* exits and no subscriber connection remains open: once the broadcaster and
\* the acceptor have returned, the listener is closed and every subscriber
\* connection, also one registered after closeAllConnections, is closed
C31_PublisherShutdown ==
    PublisherStopped =>
        /\ statsListener = "closed"
        /\ \A k \in Subs : subConn[k] # "open"

AutoClosers(c) == {d \in Dirs : acPc[c][d] # "none"}

\* C33: for every connection, whatever the interleaving of its two copy
\* tasks, at most one auto-closer is ever started, and an auto-closer is
\* started only by a direction that has terminated
C33_AtMostOneAutoCloser ==
    \A c \in Conns :
        /\ Cardinality(AutoClosers(c)) <= 1
        /\ \A d \in AutoClosers(c) : ~connected[c][d]

\* C33 witness: both copy tasks have ended, the one that terminated first
\* read the other's flag after it was cleared, and one auto-closer runs
C33_Witness ==
    \E c \in Conns, d \in Dirs :
        /\ \A e \in Dirs : cpc[c][e] = "done"
        /\ finishOrder[c] = <<d, Other(d)>>
        /\ AutoClosers(c) = {d}

====
